---- MODULE Spec2Model ----
(***************************************************************************)
(* Offline layer of the WanderGo client (client/lib/offline-storage.ts):   *)
(* the cache with expiry, the network reachability monitor, the offline    *)
(* action queue with its replay, and the offline-aware accessors.          *)
(*                                                                         *)
(* Granularity.  The JavaScript runtime is single-threaded: a step of the  *)
(* model is one continuation, i.e. the completion of the operation a call  *)
(* is awaiting (a key-value store operation or a network call) together    *)
(* with the code that runs up to the next await.  The first store           *)
(* operation of a call is issued synchronously by the call and is taken    *)
(* together with it.                                                       *)
(***************************************************************************)
EXTENDS Integers, Sequences, FiniteSets, Bags, TLC

VARIABLES
  now,               \* Date.now(), in ms since the module was loaded
  store,             \* AsyncStorage: a function from the existing keys to strings
  evicting,          \* getCachedData calls awaiting their multiRemove (a bag)
  clearing,          \* clearCache calls awaiting their multiRemove (a bag of key sets)
  clearingQueue,     \* number of clearOfflineQueue calls awaiting notifyQueueChange
  written,           \* history: per cache entry, the cacheData call that wrote it
  isOnline,          \* let isOnline
  pollingInterval,   \* let pollingInterval: TRUE when the timer is set
  networkListeners,  \* let networkListeners
  queueListeners,    \* let queueListeners
  delivered,         \* history: per queue listener, the last count it was given
  enqueues,          \* addToOfflineQueue calls in flight
  drains,            \* processOfflineQueue calls in flight
  serverLog,         \* history: the replayed actions the server has applied
  nextId,            \* number of QueuedAction ids generated so far
  drainCalls,        \* number of processOfflineQueue calls made so far
  fetching,          \* network calls of the mutating accessors in flight
  reading,           \* calls of the read accessors in flight
  readCalls,         \* number of calls of the read accessors made so far
  ev                 \* history: what the last step did (calls, returns, callbacks)

vars == <<now, store, evicting, clearing, written, isOnline,
          pollingInterval, networkListeners, queueListeners, delivered,
          enqueues, clearingQueue, drains, serverLog, nextId, drainCalls,
          fetching, reading, readCalls, ev>>

cacheVars == <<store, evicting, clearing, written>>
netVars == <<isOnline, pollingInterval, networkListeners>>
readVars == <<reading, readCalls>>
queueVars == <<queueListeners, delivered, enqueues, clearingQueue, drains,
               serverLog, nextId, drainCalls>>

----------------------------------------------------------------------------
(* Bounds of the model *)

\* Date.now() is explored at k * DEFAULT_CACHE_DURATION + m, k <= MaxDays, m <= MaxMs
MaxMs == 2
MaxDays == 1
\* concurrent getCachedData calls awaiting an eviction, and clearCache calls
MaxEvicting == 1
MaxClearing == 1
\* QueuedActions created, addToOfflineQueue and clearOfflineQueue calls in
\* flight, processOfflineQueue calls made
MaxActions == 2
MaxEnqueues == 1
MaxClearingQueue == 1
MaxDrainCalls == 2
\* network calls of the accessors in flight, and calls of the mutating
\* accessors made offline
MaxFetching == 1
MaxOfflineCalls == 1
\* calls of the read accessors made, and in flight; weeks the clock advances
MaxReadCalls == 2
MaxReading == 1
MaxWeeks == 1
\* calls of the list accessors beside the mutating accessors
MaxListCalls == 1
\* addToOfflineQueue calls in flight together
MaxWriters == 2
\* places of the cached collection the nearby fallback is applied to
MaxCollection == 3

----------------------------------------------------------------------------
(* Program constants *)

CACHE_PREFIX == "@wandergo_cache:"
CACHE_EXPIRY_PREFIX == "@wandergo_expiry:"
DEFAULT_CACHE_DURATION == 24 * 60 * 60 * 1000
\* A key is the tuple of the parts its template literal concatenates.
OFFLINE_QUEUE_KEY == <<"@wandergo_offline_queue">>
AUTH_TOKEN_KEY == <<"@wandergo_token">>
AUTH_USER_KEY == <<"@wandergo_user">>

\* JavaScript null, as a value handed to or returned by the program
JsNull == "null"
\* the result of AsyncStorage.getItem / multiGet for a key that does not exist
NoItem == <<>>
\* no record (history variables)
None == [none |-> TRUE]

----------------------------------------------------------------------------
(* JavaScript numbers and their conversions.                               *)
(* A number is [e21 |-> h, u |-> n], standing for h * 10^21 + n: the values *)
(* below 10^21 (e21 = 0) and those from 10^21 on, which Number.toString    *)
(* writes in exponential notation.                                        *)

NaN == [nan |-> TRUE]
Num(n) == [e21 |-> 0, u |-> n]
NumAdd(a, b) == [e21 |-> a.e21 + b.e21, u |-> a.u + b.u]
\* a > b; every comparison with NaN is false
NumGT(a, b) ==
  /\ a # NaN
  /\ b # NaN
  /\ \/ a.e21 > b.e21
     \/ a.e21 = b.e21 /\ a.u > b.u

DigitChars == <<"0", "1", "2", "3", "4", "5", "6", "7", "8", "9">>
IsDigit(c) == \E d \in 1..10 : DigitChars[d] = c
DigitValue(c) == (CHOOSE d \in 1..10 : DigitChars[d] = c) - 1

RECURSIVE Decimal(_)
Decimal(n) ==
  IF n < 10 THEN <<DigitChars[n + 1]>>
  ELSE Decimal(n \div 10) \o <<DigitChars[(n % 10) + 1]>>

\* Number.prototype.toString(): decimal digits below 10^21, else d...e+21
NumberToString(x) ==
  IF x.e21 = 0 THEN Decimal(x.u)
  ELSE Decimal(x.e21) \o <<"e", "+", "2", "1">>

RECURSIVE DigitPrefixValue(_, _)
DigitPrefixValue(s, acc) ==
  IF s = <<>> \/ ~IsDigit(Head(s)) THEN acc
  ELSE DigitPrefixValue(Tail(s), acc * 10 + DigitValue(Head(s)))

\* parseInt(s, 10): the value of the longest prefix of digits, NaN when empty
parseInt(s) ==
  IF s = <<>> \/ ~IsDigit(Head(s)) THEN NaN
  ELSE Num(DigitPrefixValue(s, 0))

\* JSON.stringify / JSON.parse of a JSON document: the text is never empty
JSONstringify(v) == <<"json", v>>
JSONparse(s) == s[2]

----------------------------------------------------------------------------
(* AsyncStorage *)

HasKey(st, k) == k \in DOMAIN st
getItem(st, k) == IF HasKey(st, k) THEN st[k] ELSE NoItem
setItem(st, k, v) == [x \in (DOMAIN st) \cup {k} |-> IF x = k THEN v ELSE st[x]]
multiSet(st, k1, v1, k2, v2) == setItem(setItem(st, k1, v1), k2, v2)
multiRemove(st, ks) == [x \in (DOMAIN st) \ ks |-> st[x]]
removeItem(st, k) == multiRemove(st, {k})
getAllKeys(st) == DOMAIN st
startsWith(k, prefix) == k[1] = prefix

EmptyStore == [x \in {} |-> NoItem]

----------------------------------------------------------------------------
(* Cache with expiry *)

\* the cache entries (kind, identifier) and the payloads the model explores
Entries ==
  {<<"place", "42">>, <<"favorites", "user">>, <<"visited", "user">>,
   <<"places", "all">>, <<"place", "43">>, <<"routes", "user">>,
   <<"route", "r1">>, <<"itineraries", "user">>, <<"itinerary", "i1">>,
   <<"popular_places", "popular_10">>, <<"popular_places", "popular_1">>,
   <<"popular_places", "popular_2">>,
   <<"nearby_places", "nearby_41.01_28.98">>,
   <<"achievements", "user">>}
\* the entry the application reads and writes directly in CacheSpec
DirectEntries == {<<"place", "42">>}
Values == {"vA", "vB", JsNull}
\* the durations passed to cacheData; None when the argument is omitted;
\* the last one is 10^21 ms
Durations == {None, Num(1), [e21 |-> 1, u |-> 0]}

cacheKey(key, identifier) == <<CACHE_PREFIX, key, identifier>>
expiryKey(key, identifier) == <<CACHE_EXPIRY_PREFIX, key, identifier>>
EntryKeys(e) == {cacheKey(e[1], e[2]), expiryKey(e[1], e[2])}

\* the entries one of whose keys is among ks
EntriesOf(ks) == {e \in Entries : EntryKeys(e) \cap ks # {}}

\* the instant a recorded cacheData call set as expiry
ExpiryOf(w) == NumAdd(Num(w.at), w.ttl)

Truthy(s) == s # NoItem /\ s # <<>>

\* Date.now() > expiryTime
Expired(t, expiryTime) == NumGT(Num(t), expiryTime)

cacheData(key, identifier, data, duration) ==
  LET ttl == IF duration = None THEN Num(DEFAULT_CACHE_DURATION) ELSE duration
      expiry == NumAdd(Num(now), ttl)
  IN /\ store' = multiSet(store,
                          cacheKey(key, identifier), JSONstringify(data),
                          expiryKey(key, identifier), NumberToString(expiry))
     /\ written' = [written EXCEPT ![<<key, identifier>>] =
                      [val |-> data, at |-> now, ttl |-> ttl]]

\* getCachedData, from multiGet to its return or to the call of multiRemove:
\* the value it returns, whether it is the parsed entry (hit), and whether
\* the pair is removed first
Lookup(key, identifier) ==
  LET data == getItem(store, cacheKey(key, identifier))
      expiry == getItem(store, expiryKey(key, identifier))
  IN IF ~Truthy(data) \/ ~Truthy(expiry)
     THEN [evict |-> FALSE, hit |-> FALSE, result |-> JsNull]
     ELSE IF Expired(now, parseInt(expiry))
     THEN [evict |-> TRUE, hit |-> FALSE, result |-> JsNull]
     ELSE [evict |-> FALSE, hit |-> TRUE, result |-> JSONparse(data)]

\* what a getCachedData call finds at its multiGet (history): whether a
\* cacheData call stands for the entry, the value and duration it was given,
\* whether Date.now() exceeds, or is still below, the expiry it computed, and
\* whether that expiry is below 10^21
ReadOf(e) ==
  LET w == written[e]
  IN IF w = None THEN [entry |-> e, stored |-> FALSE]
     ELSE [entry |-> e, stored |-> TRUE, val |-> w.val, ttl |-> w.ttl,
           afterExpiry |-> NumGT(Num(now), ExpiryOf(w)),
           beforeExpiry |-> NumGT(ExpiryOf(w), Num(now)),
           below1e21 |-> ExpiryOf(w).e21 = 0]

\* getCachedData up to its return or to the await of multiRemove
getCachedData(key, identifier) ==
  LET e == <<key, identifier>>
      found == Lookup(key, identifier)
      call == ReadOf(e)
  IN IF found.evict
     THEN /\ BagCardinality(evicting) < MaxEvicting
          /\ evicting' = evicting (+) SetToBag({call})
          /\ ev' = [op |-> "await"]
     ELSE /\ ev' = [op |-> "getCachedData", call |-> call,
                    result |-> found.result]
          /\ UNCHANGED evicting

\* getCachedData removing the value key only
getCachedDataEvicted_ValueKeyOnly(call) ==
  /\ BagIn(call, evicting)
  /\ evicting' = evicting (-) SetToBag({call})
  /\ store' = multiRemove(store, {cacheKey(call.entry[1], call.entry[2])})
  /\ written' = [written EXCEPT ![call.entry] = None]
  /\ ev' = [op |-> "getCachedData", call |-> call, result |-> JsNull]

\* getCachedData: multiRemove done, return null
getCachedDataEvicted(call) ==
  /\ BagIn(call, evicting)
  /\ evicting' = evicting (-) SetToBag({call})
  /\ store' = multiRemove(store, EntryKeys(call.entry))
  /\ written' = [written EXCEPT ![call.entry] = None]
  /\ ev' = [op |-> "getCachedData", call |-> call, result |-> JsNull]

\* clearCache passing every key of the store to multiRemove
clearCache_AllKeys ==
  LET keys == getAllKeys(store)
  IN /\ BagCardinality(clearing) < MaxClearing
     /\ clearing' = clearing (+) SetToBag({keys})
     /\ ev' = [op |-> "clearCache", at |-> "called", cacheKeys |-> keys]

\* clearCache passing the value keys only to multiRemove
clearCache_ValueKeysOnly ==
  LET keys == getAllKeys(store)
      cacheKeys == {k \in keys : startsWith(k, CACHE_PREFIX)}
  IN /\ BagCardinality(clearing) < MaxClearing
     /\ clearing' = clearing (+) SetToBag({cacheKeys})
     /\ ev' = [op |-> "clearCache", at |-> "called", cacheKeys |-> cacheKeys]

\* clearCache up to the await of multiRemove
clearCache ==
  LET keys == getAllKeys(store)
      cacheKeys == {k \in keys : startsWith(k, CACHE_PREFIX)
                                   \/ startsWith(k, CACHE_EXPIRY_PREFIX)}
  IN /\ BagCardinality(clearing) < MaxClearing
     /\ clearing' = clearing (+) SetToBag({cacheKeys})
     /\ ev' = [op |-> "clearCache", at |-> "called", cacheKeys |-> cacheKeys]

\* clearCache: multiRemove done
clearCacheRemoved(cacheKeys) ==
  /\ BagIn(cacheKeys, clearing)
  /\ clearing' = clearing (-) SetToBag({cacheKeys})
  /\ store' = multiRemove(store, cacheKeys)
  /\ written' = [e \in Entries |-> IF e \in EntriesOf(cacheKeys) THEN None
                                    ELSE written[e]]
  /\ ev' = [op |-> "clearCache", at |-> "returned", cacheKeys |-> cacheKeys]

\* The key-value store fails: the awaited AsyncStorage call rejects, the
\* catch block logs the error and the function returns.

\* cacheData rethrowing the error of multiSet
cacheDataRejected_Rethrows(key, identifier) ==
  /\ UNCHANGED <<store, written>>
  /\ ev' = [op |-> "storageFailure", in |-> "cacheData", at |-> "multiSet",
            entry |-> <<key, identifier>>, outcome |-> "throw"]

\* cacheData: multiSet rejects
cacheDataRejected(key, identifier) ==
  /\ UNCHANGED <<store, written>>
  /\ ev' = [op |-> "storageFailure", in |-> "cacheData", at |-> "multiSet",
            entry |-> <<key, identifier>>, outcome |-> "return"]

\* getCachedData: multiGet rejects
getCachedDataRejected(key, identifier) ==
  /\ UNCHANGED evicting
  /\ ev' = [op |-> "storageFailure", in |-> "getCachedData", at |-> "multiGet",
            entry |-> <<key, identifier>>, outcome |-> "return",
            result |-> JsNull]

\* getCachedData: the multiRemove of the expired entry rejects
getCachedDataEvictRejected(call) ==
  /\ BagIn(call, evicting)
  /\ evicting' = evicting (-) SetToBag({call})
  /\ UNCHANGED <<store, written>>
  /\ ev' = [op |-> "storageFailure", in |-> "getCachedData",
            at |-> "multiRemove", entry |-> call.entry, outcome |-> "return",
            result |-> JsNull]

\* the clock advances by a millisecond or by a day
Tick ==
  /\ \/ /\ now % DEFAULT_CACHE_DURATION < MaxMs
        /\ now' = now + 1
     \/ /\ now \div DEFAULT_CACHE_DURATION < MaxDays
        /\ now' = now + DEFAULT_CACHE_DURATION
  /\ ev' = [op |-> "tick"]

----------------------------------------------------------------------------
(* Calls of the cache by the application *)

CallCacheData ==
  \E e \in DirectEntries, v \in Values, d \in Durations :
    /\ cacheData(e[1], e[2], v, d)
    /\ ev' = [op |-> "cacheData", entry |-> e]
    /\ UNCHANGED <<now, fetching, readVars, evicting, clearing>>
    /\ UNCHANGED <<netVars, queueVars>>

CallGetCachedData ==
  \E e \in DirectEntries :
    /\ getCachedData(e[1], e[2])
    /\ UNCHANGED <<now, fetching, readVars, store, clearing, written>>
    /\ UNCHANGED <<netVars, queueVars>>

ContinueGetCachedData ==
  \E call \in BagToSet(evicting) :
    /\ getCachedDataEvicted(call)
    /\ UNCHANGED <<now, fetching, readVars, clearing>>
    /\ UNCHANGED <<netVars, queueVars>>

CallClearCache ==
  /\ clearCache
  /\ UNCHANGED <<now, fetching, readVars, store, evicting, written>>
  /\ UNCHANGED <<netVars, queueVars>>

ContinueClearCache ==
  \E ks \in BagToSet(clearing) :
    /\ clearCacheRemoved(ks)
    /\ UNCHANGED <<now, fetching, readVars, evicting>>
    /\ UNCHANGED <<netVars, queueVars>>

ClockTick ==
  /\ Tick
  /\ UNCHANGED <<fetching, readVars, cacheVars, netVars, queueVars>>

CallCacheDataRejected ==
  \E e \in DirectEntries :
    /\ cacheDataRejected(e[1], e[2])
    /\ UNCHANGED <<now, fetching, readVars, evicting, clearing>>
    /\ UNCHANGED <<netVars, queueVars>>

CallGetCachedDataRejected ==
  \E e \in DirectEntries :
    /\ getCachedDataRejected(e[1], e[2])
    /\ UNCHANGED <<now, fetching, readVars, store, clearing, written>>
    /\ UNCHANGED <<netVars, queueVars>>

ContinueGetCachedDataRejected ==
  \E call \in BagToSet(evicting) :
    /\ getCachedDataEvictRejected(call)
    /\ UNCHANGED <<now, fetching, readVars, clearing>>
    /\ UNCHANGED <<netVars, queueVars>>

----------------------------------------------------------------------------
(* Network reachability monitor *)

\* the callbacks the application subscribes
NetListenerIds == {"n1", "n2"}
QueueListenerIds == {"q1"}
\* a queue listener that has not been called yet
Never == -1

\* Network.getNetworkStateAsync() resolves to a NetworkState, whose optional
\* fields isConnected and isInternetReachable are true, false or undefined,
\* or rejects
Tri == {"true", "false", "undefined"}
NetworkStates == [isConnected : Tri, isInternetReachable : Tri]
Throws == [throws |-> TRUE]

\* state.isConnected === true && state.isInternetReachable !== false
Reachable(state) ==
  state.isConnected = "true" /\ state.isInternetReachable # "false"

Range(s) == {s[i] : i \in DOMAIN s}

----------------------------------------------------------------------------
(* Offline action queue *)

ActionTypes == {"create_review", "mark_visited", "add_favorite", "remove_favorite"}
Places == {"p1"}
\* the kinds of action the application enqueues directly in Spec
DirectTypes == {"add_favorite", "remove_favorite"}

getOfflineQueue(st) ==
  LET queueStr == getItem(st, OFFLINE_QUEUE_KEY)
  IN IF Truthy(queueStr) THEN JSONparse(queueStr) ELSE <<>>

\* the persisted queue
PersistedQueue == getOfflineQueue(store)

\* notifyQueueChange: read the queue, call every queue listener with its length
notifyQueueChange ==
  LET queue == getOfflineQueue(store)
  IN delivered' = [l \in QueueListenerIds |->
                     IF l \in Range(queueListeners) THEN Len(queue)
                     ELSE delivered[l]]

\* a call that changes the queue starts: the drains in flight are no longer
\* undisturbed (history)
Disturbed(ds) == {[d EXCEPT !.quiet = FALSE] : d \in ds}

\* an action is written to the queue: the drains in flight have it among the
\* actions enqueued during them (history)
WrittenDuring(ds, action) ==
  {[d EXCEPT !.during = @ \cup {action.id}] : d \in ds}

\* addToOfflineQueue dropping an action whose type and data an entry of the
\* queue already has
addToOfflineQueue_Dedup(type, data, caller) ==
  LET queueStr == getItem(store, OFFLINE_QUEUE_KEY)
      queue == IF Truthy(queueStr) THEN JSONparse(queueStr) ELSE <<>>
      action == [id |-> nextId + 1, type |-> type, data |-> data,
                 timestamp |-> now]
      known == \E a \in Range(queue) : a.type = type /\ a.data = data
  IN /\ nextId < MaxActions
     /\ nextId' = nextId + 1
     /\ enqueues' = enqueues \cup
          {[pc |-> "setItem",
            queue |-> IF known THEN queue ELSE Append(queue, action),
            action |-> action, read |-> queue, caller |-> caller]}
     /\ drains' = Disturbed(drains)
     /\ ev' = [op |-> caller, at |-> "called", branch |-> "offline",
               data |-> data]

\* addToOfflineQueue up to the await of setItem; caller is the accessor that
\* awaits it, or "addToOfflineQueue" for a direct call
addToOfflineQueue(type, data, caller) ==
  LET queueStr == getItem(store, OFFLINE_QUEUE_KEY)
      queue == IF Truthy(queueStr) THEN JSONparse(queueStr) ELSE <<>>
      action == [id |-> nextId + 1, type |-> type, data |-> data,
                 timestamp |-> now]
  IN /\ nextId < MaxActions
     /\ nextId' = nextId + 1
     /\ enqueues' = enqueues \cup
          {[pc |-> "setItem", queue |-> Append(queue, action),
            action |-> action, read |-> queue, caller |-> caller]}
     /\ drains' = Disturbed(drains)
     /\ ev' = [op |-> caller, at |-> "called", branch |-> "offline",
               data |-> data]

\* addToOfflineQueue appending to the list the store holds at the write
addToOfflineQueueWritten_AppendsToStored(c) ==
  /\ c \in enqueues
  /\ c.pc = "setItem"
  /\ store' = setItem(store, OFFLINE_QUEUE_KEY,
                      JSONstringify(Append(getOfflineQueue(store), c.action)))
  /\ enqueues' = (enqueues \ {c}) \cup {[c EXCEPT !.pc = "notifyQueueChange"]}
  /\ drains' = WrittenDuring(drains, c.action)
  /\ ev' = [op |-> c.caller, at |-> "written", branch |-> "offline",
            call |-> c]

\* addToOfflineQueue: setItem done, notifyQueueChange called
addToOfflineQueueWritten(c) ==
  /\ c \in enqueues
  /\ c.pc = "setItem"
  /\ store' = setItem(store, OFFLINE_QUEUE_KEY, JSONstringify(c.queue))
  /\ enqueues' = (enqueues \ {c}) \cup {[c EXCEPT !.pc = "notifyQueueChange"]}
  /\ drains' = WrittenDuring(drains, c.action)
  /\ ev' = [op |-> c.caller, at |-> "written", branch |-> "offline",
            call |-> c]

\* addToOfflineQueue: setItem rejected; the catch block logs the error and
\* the call returns, and so does the accessor that awaited it
addToOfflineQueueRejected(c) ==
  /\ c \in enqueues
  /\ c.pc = "setItem"
  /\ enqueues' = enqueues \ {c}
  /\ ev' = [op |-> c.caller, at |-> "returned", branch |-> "offline",
            call |-> c, rejected |-> "setItem",
            result |-> IF c.caller = "addToOfflineQueue" THEN JsNull
                       ELSE [queued |-> TRUE,
                             message |-> "Action will be synced when online"]]

\* addToOfflineQueue: notifyQueueChange done, return; the accessor that
\* awaited it returns its acknowledgement
addToOfflineQueueNotified(c) ==
  /\ c \in enqueues
  /\ c.pc = "notifyQueueChange"
  /\ notifyQueueChange
  /\ enqueues' = enqueues \ {c}
  /\ ev' = [op |-> c.caller, at |-> "returned", branch |-> "offline",
            call |-> c,
            result |-> IF c.caller = "addToOfflineQueue" THEN JsNull
                       ELSE [queued |-> TRUE,
                             message |-> "Action will be synced when online"]]

\* clearOfflineQueue up to the await of notifyQueueChange
clearOfflineQueue ==
  /\ clearingQueue < MaxClearingQueue
  /\ store' = removeItem(store, OFFLINE_QUEUE_KEY)
  /\ clearingQueue' = clearingQueue + 1
  /\ drains' = Disturbed(drains)
  /\ ev' = [op |-> "await"]

clearOfflineQueueNotified ==
  /\ clearingQueue > 0
  /\ notifyQueueChange
  /\ clearingQueue' = clearingQueue - 1
  /\ ev' = [op |-> "clearOfflineQueue"]

\* the request processOfflineQueue sends for a queued action
ReplayRequest(action) ==
  CASE action.type = "mark_visited" ->
         [method |-> "POST", path |-> <<"/api/visited/", action.data>>]
    [] action.type = "add_favorite" ->
         [method |-> "POST", path |-> <<"/api/favorites/", action.data>>]
    [] action.type = "remove_favorite" ->
         [method |-> "DELETE", path |-> <<"/api/favorites/", action.data>>]
    [] action.type = "create_review" ->
         [method |-> "POST", path |-> <<"/api/places/", action.data, "/reviews">>]

\* processOfflineQueue up to its first authFetch, or to its return when the
\* queue is empty
processOfflineQueue ==
  LET queue == getOfflineQueue(store)
  IN /\ drainCalls < MaxDrainCalls
     /\ drainCalls' = drainCalls + 1
     /\ drains' =
          IF Len(queue) = 0 THEN drains
          ELSE {[d EXCEPT !.alone = FALSE] : d \in drains} \cup
               {[n |-> drainCalls + 1, queue |-> queue, i |-> 1,
                 pc |-> "authFetch", updatedQueue |-> <<>>, during |-> {},
                 failed |-> <<>>,
                 quiet |-> enqueues = {} /\ clearingQueue = 0,
                 alone |-> drains = {}]}

\* the loop of processOfflineQueue left at the first action that failed
NextAction_StopsAfterFailure(d, d2) ==
  IF d2.i < Len(d2.queue) /\ d2.failed = d.failed
  THEN /\ drains' = (drains \ {d}) \cup
                      {[d2 EXCEPT !.i = @ + 1, !.pc = "authFetch"]}
       /\ ev' = [op |-> "await"]
  ELSE /\ drains' = drains \ {d}
       /\ ev' = [op |-> "processOfflineQueue", drain |-> d2]

\* the loop of processOfflineQueue goes to the next action, or the call returns
NextAction(d, d2) ==
  IF d2.i < Len(d2.queue)
  THEN /\ drains' = (drains \ {d}) \cup
                      {[d2 EXCEPT !.i = @ + 1, !.pc = "authFetch"]}
       /\ ev' = [op |-> "await"]
  ELSE /\ drains' = drains \ {d}
       /\ ev' = [op |-> "processOfflineQueue", drain |-> d2]

\* processOfflineQueue: the authFetch of the current action is over; it
\* resolved to an ok response, to another response, or rejected
Outcomes == {"ok", "notOk", "throws"}
processOfflineQueueFetched(d, outcome) ==
  LET action == d.queue[d.i]
      success == outcome = "ok"
  IN /\ d \in drains
     /\ d.pc = "authFetch"
     /\ IF success
        THEN /\ serverLog' = Append(serverLog,
                               [id |-> action.id, placeId |-> action.data])
             /\ drains' = (drains \ {d}) \cup {[d EXCEPT !.pc = "getOfflineQueue"]}
             /\ ev' = [op |-> "authFetch", request |-> ReplayRequest(action)]
        ELSE /\ serverLog' = serverLog
             /\ NextAction(d, [d EXCEPT !.failed = Append(@, action)])

\* removeFromOfflineQueue: getOfflineQueue done, setItem called
removeFromOfflineQueueRead(d) ==
  LET actionId == d.queue[d.i].id
      queue == getOfflineQueue(store)
      updatedQueue == SelectSeq(queue, LAMBDA action : action.id # actionId)
  IN /\ d \in drains
     /\ d.pc = "getOfflineQueue"
     /\ drains' = (drains \ {d}) \cup
                    {[d EXCEPT !.pc = "setItem", !.updatedQueue = updatedQueue]}
     /\ ev' = [op |-> "await"]

\* removeFromOfflineQueue: setItem done, notifyQueueChange called
removeFromOfflineQueueWritten(d) ==
  /\ d \in drains
  /\ d.pc = "setItem"
  /\ store' = setItem(store, OFFLINE_QUEUE_KEY, JSONstringify(d.updatedQueue))
  /\ drains' = (drains \ {d}) \cup {[d EXCEPT !.pc = "notifyQueueChange"]}
  /\ ev' = [op |-> "await"]

\* removeFromOfflineQueue: notifyQueueChange done; back in processOfflineQueue
removeFromOfflineQueueNotified(d) ==
  /\ d \in drains
  /\ d.pc = "notifyQueueChange"
  /\ notifyQueueChange
  /\ NextAction(d, d)

\* one run of pollNetworkStatus, getNetworkStateAsync having resolved to
\* state (or rejected: Throws)
pollNetworkStatus(state) ==
  LET newOnlineState == Reachable(state)
  IN IF state # Throws /\ isOnline # newOnlineState
     THEN /\ isOnline' = newOnlineState
          /\ IF newOnlineState
             THEN processOfflineQueue
             ELSE UNCHANGED <<drains, drainCalls>>
          /\ ev' = [op |-> "pollNetworkStatus", notified |-> networkListeners,
                    replay |-> newOnlineState]
     ELSE /\ UNCHANGED <<isOnline, drains, drainCalls>>
          /\ ev' = [op |-> "pollNetworkStatus", notified |-> <<>>,
                    replay |-> FALSE]

checkNetworkStatus(state) ==
  /\ isOnline' = IF state = Throws THEN isOnline ELSE Reachable(state)
  /\ ev' = [op |-> "checkNetworkStatus", result |-> isOnline']

stopNetworkPolling ==
  pollingInterval' = FALSE

subscribeToNetworkStatus(listener) ==
  /\ networkListeners' = Append(networkListeners, listener)
  /\ UNCHANGED pollingInterval

\* the function subscribeToNetworkStatus returned for listener
unsubscribeFromNetworkStatus(listener) ==
  /\ networkListeners' = SelectSeq(networkListeners, LAMBDA l : l # listener)
  /\ IF Len(networkListeners') = 0
     THEN stopNetworkPolling
     ELSE UNCHANGED pollingInterval

subscribeToQueueChanges(listener) ==
  /\ queueListeners' = Append(queueListeners, listener)
  /\ delivered' = [delivered EXCEPT ![listener] = Never]

unsubscribeFromQueueChanges(listener) ==
  /\ queueListeners' = SelectSeq(queueListeners, LAMBDA l : l # listener)
  /\ UNCHANGED delivered

----------------------------------------------------------------------------
(* Steps of the monitor and of the queue *)

\* the interval timer fires (or module load makes the first call)
PollTick ==
  \E state \in NetworkStates \cup {Throws} :
    /\ pollingInterval
    /\ pollNetworkStatus(state)
    /\ UNCHANGED <<now, fetching, readVars, cacheVars, pollingInterval, networkListeners>>
    /\ UNCHANGED <<queueListeners, delivered, enqueues, clearingQueue,
                   serverLog, nextId>>

CallCheckNetworkStatus ==
  \E state \in NetworkStates \cup {Throws} :
    /\ checkNetworkStatus(state)
    /\ UNCHANGED <<now, fetching, readVars, cacheVars, pollingInterval, networkListeners, queueVars>>

Subscribe ==
  \E l \in NetListenerIds \ Range(networkListeners) :
    /\ subscribeToNetworkStatus(l)
    /\ ev' = [op |-> "subscribeToNetworkStatus"]
    /\ UNCHANGED <<now, fetching, readVars, cacheVars, isOnline, queueVars>>

Unsubscribe ==
  \E l \in Range(networkListeners) :
    /\ unsubscribeFromNetworkStatus(l)
    /\ ev' = [op |-> "unsubscribe", from |-> "subscribeToNetworkStatus",
              listener |-> l]
    /\ UNCHANGED <<now, fetching, readVars, cacheVars, isOnline, queueVars>>

SubscribeQueue ==
  \E l \in QueueListenerIds \ Range(queueListeners) :
    /\ subscribeToQueueChanges(l)
    /\ ev' = [op |-> "subscribeToQueueChanges"]
    /\ UNCHANGED <<now, fetching, readVars, cacheVars, netVars>>
    /\ UNCHANGED <<enqueues, clearingQueue, drains, serverLog, nextId, drainCalls>>

UnsubscribeQueue ==
  \E l \in Range(queueListeners) :
    /\ unsubscribeFromQueueChanges(l)
    /\ ev' = [op |-> "unsubscribe", from |-> "subscribeToQueueChanges",
              listener |-> l]
    /\ UNCHANGED <<now, fetching, readVars, cacheVars, netVars>>
    /\ UNCHANGED <<enqueues, clearingQueue, drains, serverLog, nextId, drainCalls>>

CallAddToOfflineQueue ==
  \E type \in DirectTypes, placeId \in Places :
    /\ Cardinality(enqueues) < MaxEnqueues
    /\ addToOfflineQueue(type, placeId, "addToOfflineQueue")
    /\ UNCHANGED <<now, fetching, readVars, cacheVars, netVars>>
    /\ UNCHANGED <<queueListeners, delivered, clearingQueue, serverLog, drainCalls>>

ContinueAddWritten ==
  \E c \in enqueues :
    /\ addToOfflineQueueWritten(c)
    /\ UNCHANGED <<now, fetching, readVars, evicting, clearing, written, netVars>>
    /\ UNCHANGED <<queueListeners, delivered, clearingQueue,
                   serverLog, nextId, drainCalls>>

ContinueAddNotified ==
  \E c \in enqueues :
    /\ addToOfflineQueueNotified(c)
    /\ UNCHANGED <<now, fetching, readVars, cacheVars, netVars>>
    /\ UNCHANGED <<queueListeners, clearingQueue, drains, serverLog, nextId,
                   drainCalls>>

ContinueAddRejected ==
  \E c \in enqueues :
    /\ addToOfflineQueueRejected(c)
    /\ UNCHANGED <<now, store, fetching, readVars, evicting, clearing, written,
                   netVars>>
    /\ UNCHANGED <<queueListeners, delivered, clearingQueue, drains, serverLog,
                   nextId, drainCalls>>

\* addToOfflineQueue called while earlier calls of it are in flight
CallAddToOfflineQueueTogether ==
  \E type \in DirectTypes, placeId \in Places :
    /\ Cardinality(enqueues) < MaxWriters
    /\ addToOfflineQueue(type, placeId, "addToOfflineQueue")
    /\ UNCHANGED <<now, fetching, readVars, cacheVars, netVars>>
    /\ UNCHANGED <<queueListeners, delivered, clearingQueue, serverLog, drainCalls>>

CallClearOfflineQueue ==
  /\ clearOfflineQueue
  /\ UNCHANGED <<now, fetching, readVars, evicting, clearing, written, netVars>>
  /\ UNCHANGED <<queueListeners, delivered, enqueues, serverLog, nextId, drainCalls>>

ContinueClearOfflineQueue ==
  /\ clearOfflineQueueNotified
  /\ UNCHANGED <<now, fetching, readVars, cacheVars, netVars>>
  /\ UNCHANGED <<queueListeners, enqueues, drains, serverLog, nextId, drainCalls>>

ReplayFetched ==
  \E d \in drains, outcome \in Outcomes :
    /\ processOfflineQueueFetched(d, outcome)
    /\ UNCHANGED <<now, fetching, readVars, cacheVars, netVars>>
    /\ UNCHANGED <<queueListeners, delivered, enqueues, clearingQueue, nextId,
                   drainCalls>>

ReplayRemoveRead ==
  \E d \in drains :
    /\ removeFromOfflineQueueRead(d)
    /\ UNCHANGED <<now, fetching, readVars, cacheVars, netVars>>
    /\ UNCHANGED <<queueListeners, delivered, enqueues, clearingQueue,
                   serverLog, nextId, drainCalls>>

ReplayRemoveWritten ==
  \E d \in drains :
    /\ removeFromOfflineQueueWritten(d)
    /\ UNCHANGED <<now, fetching, readVars, evicting, clearing, written, netVars>>
    /\ UNCHANGED <<queueListeners, delivered, enqueues, clearingQueue,
                   serverLog, nextId, drainCalls>>

ReplayRemoveNotified ==
  \E d \in drains :
    /\ removeFromOfflineQueueNotified(d)
    /\ UNCHANGED <<now, fetching, readVars, cacheVars, netVars>>
    /\ UNCHANGED <<queueListeners, enqueues, clearingQueue, serverLog, nextId,
                   drainCalls>>

----------------------------------------------------------------------------
(* Offline-aware accessors *)

MutatingAccessors ==
  {"markVisitedWithOffline", "addFavoriteWithOffline", "removeFavoriteWithOffline"}
ListAccessors == {"getFavoritesWithOffline", "getVisitedWithOffline"}

\* api.markVisited, api.addFavorite, api.removeFavorite, api.getFavorites,
\* api.getVisitedPlaces: the request authFetch is called with
ApiRequest(accessor, placeId) ==
  CASE accessor = "markVisitedWithOffline" ->
         [method |-> "POST", path |-> <<"/api/visited/", placeId>>]
    [] accessor = "addFavoriteWithOffline" ->
         [method |-> "POST", path |-> <<"/api/favorites/", placeId>>]
    [] accessor = "removeFavoriteWithOffline" ->
         [method |-> "DELETE", path |-> <<"/api/favorites/", placeId>>]
    [] accessor = "getFavoritesWithOffline" ->
         [method |-> "GET", path |-> <<"/api/favorites">>]
    [] accessor = "getVisitedWithOffline" ->
         [method |-> "GET", path |-> <<"/api/visited">>]

\* the accessor calls the api function and awaits (or returns) its promise
CallApi(accessor, placeId) ==
  /\ Cardinality(fetching) < MaxFetching
  /\ fetching' = fetching \cup
       {[accessor |-> accessor, request |-> ApiRequest(accessor, placeId)]}
  /\ ev' = [op |-> accessor, at |-> "called", branch |-> "online",
            data |-> placeId]

\* markVisitedWithOffline calling the api although the flag is false
markVisitedWithOffline_CallsAnyway(placeId) ==
  /\ CallApi("markVisitedWithOffline", placeId)
  /\ UNCHANGED <<enqueues, nextId, drains>>

markVisitedWithOffline(placeId) ==
  IF isOnline
  THEN /\ CallApi("markVisitedWithOffline", placeId)
       /\ UNCHANGED <<enqueues, nextId, drains>>
  ELSE /\ addToOfflineQueue("mark_visited", placeId, "markVisitedWithOffline")
       /\ UNCHANGED fetching

addFavoriteWithOffline(placeId) ==
  IF isOnline
  THEN /\ CallApi("addFavoriteWithOffline", placeId)
       /\ UNCHANGED <<enqueues, nextId, drains>>
  ELSE /\ addToOfflineQueue("add_favorite", placeId, "addFavoriteWithOffline")
       /\ UNCHANGED fetching

removeFavoriteWithOffline(placeId) ==
  IF isOnline
  THEN /\ CallApi("removeFavoriteWithOffline", placeId)
       /\ UNCHANGED <<enqueues, nextId, drains>>
  ELSE /\ addToOfflineQueue("remove_favorite", placeId, "removeFavoriteWithOffline")
       /\ UNCHANGED fetching

\* the network call of a mutating accessor is over: it resolved to an ok
\* response, to another response, or rejected
AccessorFetched(f, outcome) ==
  /\ f \in fetching
  /\ fetching' = fetching \ {f}
  /\ ev' = [op |-> f.accessor, at |-> "returned", branch |-> "online",
            result |-> IF outcome = "ok" THEN "json" ELSE "Error: failed"]

----------------------------------------------------------------------------
(* Offline-aware read accessors: their arguments, the results of their     *)
(* fetches and the cache entries they use                                  *)

ReadAccessors ==
  {"getPlacesWithOffline", "getPlaceWithOffline", "getRoutesWithOffline",
   "getRouteWithOffline", "getItinerariesWithOffline", "getItineraryWithOffline",
   "getFavoritesWithOffline", "getVisitedWithOffline",
   "getPopularPlacesWithOffline", "getNearbyPlacesWithOffline",
   "getAchievementsWithOffline"}
\* the accessors that fall back on the cached full place collection
CollectionFallbackAccessors ==
  {"getPopularPlacesWithOffline", "getNearbyPlacesWithOffline"}

\* 7 * 24 * 60 * 60 * 1000, the duration the save...ForOffline functions pass
SEVEN_DAYS == 7 * 24 * 60 * 60 * 1000

\* An optional value (an argument that may be omitted, a field that may be
\* null or undefined) is the sequence of the value, or the empty sequence.
Absent == <<>>
Some(x) == <<x>>
\* x || d, for an optional number
OrElse(x, d) == IF x = Absent \/ x[1] = 0 THEN d ELSE x[1]

\* Places.  Latitudes and longitudes are in thousandths of a degree, ratings
\* in tenths.
Place42 == [id |-> "42", name |-> "Hagia Sophia", description |-> Absent,
            city |-> "Istanbul", category |-> "museum",
            latitude |-> 41008, longitude |-> 28980, avgRating |-> Some(45)]
Place43 == [id |-> "43", name |-> "Gulhane", description |-> Some("Park"),
            city |-> "Izmir", category |-> "park",
            latitude |-> 41013, longitude |-> 28980, avgRating |-> Absent]
Place44 == [id |-> "44", name |-> "Anadolu Kavagi", description |-> Absent,
            city |-> "Istanbul", category |-> "village",
            latitude |-> 41150, longitude |-> 28980, avgRating |-> Some(40)]
Place45 == [id |-> "45", name |-> "Sile", description |-> Absent,
            city |-> "Istanbul", category |-> "beach",
            latitude |-> 41300, longitude |-> 28980, avgRating |-> Absent]
Route1 == [id |-> "r1", name |-> "walk"]
Itinerary1 == [id |-> "i1", title |-> "day one"]
PlaceLists == {<<>>, <<Place43, Place42>>}

\* a call without arguments
NoArgs == <<>>
\* the options argument omitted
Undefined == [undefined |-> TRUE]

\* the options of getPlacesWithOffline the model explores
PlaceOptions ==
  {Undefined,
   [city |-> Absent, category |-> Absent, search |-> Absent, limit |-> Some(1)],
   [city |-> Some("ist"), category |-> Some("museum"), search |-> Some("Sophia"),
    limit |-> Absent],
   [city |-> Absent, category |-> Absent, search |-> Absent, limit |-> Some(0)]}

\* !options || Object.keys(options).length === 0
NoOptions(options) ==
  \/ options = Undefined
  \/ \A f \in DOMAIN options : options[f] = Absent

ArgsOf(accessor) ==
  CASE accessor = "getPlacesWithOffline" -> {[options |-> o] : o \in PlaceOptions}
    [] accessor = "getPlaceWithOffline" -> {[id |-> "42"]}
    [] accessor = "getRouteWithOffline" -> {[id |-> "r1"]}
    [] accessor = "getItineraryWithOffline" -> {[id |-> "i1"]}
    [] accessor = "getPopularPlacesWithOffline" -> {[limit |-> Absent]}
    [] accessor = "getNearbyPlacesWithOffline" ->
         {[lat |-> 41009, lng |-> 28980, radiusKm |-> Absent, limit |-> Absent]}
    [] OTHER -> {NoArgs}

\* what the server answers to the fetch of an accessor
FetchResults(accessor, args) ==
  CASE accessor = "getPlacesWithOffline" ->
         IF NoOptions(args.options) THEN PlaceLists ELSE {<<Place43>>}
    [] accessor = "getPlaceWithOffline" -> {Place42}
    [] accessor = "getRoutesWithOffline" -> {<<Route1>>}
    [] accessor = "getRouteWithOffline" -> {Route1}
    [] accessor = "getItinerariesWithOffline" -> {<<Itinerary1>>}
    [] accessor = "getItineraryWithOffline" -> {Itinerary1}
    [] accessor = "getPopularPlacesWithOffline" -> {<<Place42>>}
    [] accessor = "getNearbyPlacesWithOffline" -> {<<Place42>>}
    [] OTHER -> {<<"vA">>, <<"vB">>}

\* Number.prototype.toFixed(2) of a coordinate given in thousandths of a
\* degree (non-negative, and not halfway between two hundredths)
toFixed2(x) ==
  LET h == (x + 5) \div 10
  IN ToString(h \div 100) \o "." \o ToString((h \div 10) % 10) \o ToString(h % 10)

\* the cache entry (key, identifier) an accessor reads and writes
EntryOf(accessor, args) ==
  CASE accessor = "getPlacesWithOffline" -> <<"places", "all">>
    [] accessor = "getPlaceWithOffline" -> <<"place", args.id>>
    [] accessor = "getRoutesWithOffline" -> <<"routes", "user">>
    [] accessor = "getRouteWithOffline" -> <<"route", args.id>>
    [] accessor = "getItinerariesWithOffline" -> <<"itineraries", "user">>
    [] accessor = "getItineraryWithOffline" -> <<"itinerary", args.id>>
    [] accessor = "getFavoritesWithOffline" -> <<"favorites", "user">>
    [] accessor = "getVisitedWithOffline" -> <<"visited", "user">>
    [] accessor = "getPopularPlacesWithOffline" ->
         <<"popular_places", "popular_" \o ToString(OrElse(args.limit, 10))>>
    [] accessor = "getNearbyPlacesWithOffline" ->
         <<"nearby_places",
           "nearby_" \o toFixed2(args.lat) \o "_" \o toFixed2(args.lng)>>
    [] accessor = "getAchievementsWithOffline" -> <<"achievements", "user">>

\* the kind of the per-item entries of a collection
ItemKind(accessor) ==
  CASE accessor = "getPlacesWithOffline" -> "place"
    [] accessor = "getRoutesWithOffline" -> "route"
    [] accessor = "getItinerariesWithOffline" -> "itinerary"

\* savePlacesForOffline, saveRoutesForOffline, saveItinerariesForOffline:
\* the cacheData calls they make, in order
saveForOffline(accessor, items) ==
  <<[entry |-> EntryOf(accessor, [options |-> Undefined]), data |-> items,
     duration |-> Num(SEVEN_DAYS)]>>
  \o [i \in 1..Len(items) |->
        [entry |-> <<ItemKind(accessor), items[i].id>>, data |-> items[i],
         duration |-> None]]

\* the cacheData calls an accessor makes after a successful fetch, in order
WritesAfterFetch(accessor, args, result) ==
  CASE accessor = "getPlacesWithOffline" ->
         IF NoOptions(args.options) THEN saveForOffline(accessor, result)
         ELSE <<>>
    [] accessor \in {"getRoutesWithOffline", "getItinerariesWithOffline"} ->
         saveForOffline(accessor, result)
    [] OTHER ->
         <<[entry |-> EntryOf(accessor, args), data |-> result, duration |-> None]>>

\* Array.prototype.slice(0, n)
Slice(s, n) == SubSeq(s, 1, IF n < Len(s) THEN n ELSE Len(s))

\* R * c of haversine for two points on the same meridian, in millimetres:
\* with dLng = 0, a = sin(dLat/2)^2 and c = |dLat|, so that the distance is
\* 6371 km * pi/180 = 111.195 km per degree.  Every place and every query
\* point of the model has the same longitude.
MM_PER_MILLIDEGREE == 111195
Abs(x) == IF x < 0 THEN 0 - x ELSE x
haversine(lat1, lng1, lat2, lng2) == Abs(lat2 - lat1) * MM_PER_MILLIDEGREE
\* a number of kilometres, in millimetres
Km(x) == x * 1000000

\* Array.prototype.sort((a, b) => a.distance - b.distance), which is stable
RECURSIVE SortByDistance(_)
SortByDistance(s) ==
  IF s = <<>> THEN <<>>
  ELSE LET sorted == SortByDistance(SubSeq(s, 1, Len(s) - 1))
           x == s[Len(s)]
           n == Cardinality({j \in 1..Len(sorted) : sorted[j].distance <= x.distance})
       IN SubSeq(sorted, 1, n) \o <<x>> \o SubSeq(sorted, n + 1, Len(sorted))

\* Array.prototype.sort((a, b) => (b.avgRating || 0) - (a.avgRating || 0))
RECURSIVE SortByRating(_)
SortByRating(s) ==
  IF s = <<>> THEN <<>>
  ELSE LET sorted == SortByRating(SubSeq(s, 1, Len(s) - 1))
           x == s[Len(s)]
           n == Cardinality({j \in 1..Len(sorted) :
                               OrElse(sorted[j].avgRating, 0) >= OrElse(x.avgRating, 0)})
       IN SubSeq(sorted, 1, n) \o <<x>> \o SubSeq(sorted, n + 1, Len(sorted))

\* String.prototype.toLowerCase and String.prototype.includes, on the
\* strings of the model
toLowerCase(str) ==
  CASE str = "Istanbul" -> "istanbul"
    [] str = "Izmir" -> "izmir"
    [] str = "Hagia Sophia" -> "hagia sophia"
    [] str = "Gulhane" -> "gulhane"
    [] str = "Park" -> "park"
    [] OTHER -> str
ProperSubstrings ==
  {<<"istanbul", "ist">>, <<"izmir", "iz">>, <<"hagia sophia", "sophia">>,
   <<"gulhane", "hane">>}
includes(str, sub) == str = sub \/ <<str, sub>> \in ProperSubstrings

\* getPlacesWithOffline, offline: the filters on the cached collection
FilterPlaces(cached, options) ==
  LET given(f) == options # Undefined /\ options[f] # Absent
      byCity ==
        IF given("city")
        THEN SelectSeq(cached, LAMBDA p :
               includes(toLowerCase(p.city), toLowerCase(options.city[1])))
        ELSE cached
      byCategory ==
        IF given("category")
        THEN SelectSeq(byCity, LAMBDA p : p.category = options.category[1])
        ELSE byCity
      bySearch ==
        IF given("search")
        THEN SelectSeq(byCategory, LAMBDA p :
               \/ includes(toLowerCase(p.name), toLowerCase(options.search[1]))
               \/ /\ p.description # Absent
                  /\ includes(toLowerCase(p.description[1]),
                              toLowerCase(options.search[1])))
        ELSE byCategory
  IN IF given("limit") /\ options.limit[1] # 0
     THEN Slice(bySearch, options.limit[1])
     ELSE bySearch

\* getPopularPlacesWithOffline, offline without its own entry: the rated
\* places of the cached collection by rating
PopularFallback(allPlaces, limit) ==
  Slice(SortByRating(SelectSeq(allPlaces, LAMBDA p : p.avgRating # Absent)),
        OrElse(limit, 10))

\* getNearbyPlacesWithOffline, offline without its own entry: the places
\* of the cached collection within the radius, nearest first
NearbyFallback(allPlaces, lat, lng, radiusKm, limit) ==
  LET withDistance ==
        [i \in 1..Len(allPlaces) |->
           [place |-> allPlaces[i],
            distance |-> haversine(lat, lng, allPlaces[i].latitude,
                                   allPlaces[i].longitude)]]
      within == SelectSeq(withDistance,
                          LAMBDA p : p.distance <= Km(OrElse(radiusKm, 20)))
  IN Slice(SortByDistance(within), OrElse(limit, 10))

----------------------------------------------------------------------------
(* Offline-aware read accessors: the calls.  All eleven have the shape      *)
(*   if (isOnline) { try { fetch; write the cache; return }                *)
(*                   catch { cached = read; if (cached) return; throw } }  *)
(*   cached = read; if (cached) return ...; [fallback]; throw              *)

\* the error a failed fetch rejects with, and the error of an accessor that
\* finds nothing offline
FetchError == "Error: Failed to fetch"
OfflineError == "Error: not available offline"

\* what a read of a cache entry finds (history): whether a cacheData call
\* stands for the entry, the value it stored, and whether Date.now() is
\* still below, or already above, the expiry it computed
Observed(e) ==
  LET w == written[e]
  IN IF w = None THEN [present |-> FALSE]
     ELSE [present |-> TRUE, val |-> w.val,
           unexpired |-> NumGT(ExpiryOf(w), Num(now)),
           expired |-> NumGT(Num(now), ExpiryOf(w))]

\* a call of a read accessor
ReadCall(accessor, args, branch) ==
  [accessor |-> accessor, args |-> args, branch |-> branch, pc |-> "fetch",
   fetched |-> Absent, writes |-> <<>>, entry |-> <<>>,
   own |-> None, all |-> None]

\* the call returns a value, or rejects with an error
Return(c, c2, result) ==
  /\ reading' = reading \ {c}
  /\ ev' = [op |-> c.accessor, at |-> "returned", outcome |-> "return",
            result |-> result, call |-> c2]
Throw(c, c2) ==
  /\ reading' = reading \ {c}
  /\ ev' = [op |-> c.accessor, at |-> "returned", outcome |-> "throw",
            error |-> IF c2.branch = "online" THEN FetchError ELSE OfflineError,
            call |-> c2]

\* the call awaits the multiRemove of getCachedData
AwaitEviction(c, c2, e) ==
  /\ reading' = (reading \ {c}) \cup {[c2 EXCEPT !.pc = "evict", !.entry = e]}
  /\ ev' = [op |-> c.accessor, at |-> "evicting", call |-> c2]

\* popular and nearby, offline and without an entry of their own:
\* getOfflinePlaces and what follows it
ReadCollection(c, c2) ==
  LET e == <<"places", "all">>
      found == Lookup(e[1], e[2])
      c3 == [c2 EXCEPT !.all = Observed(e)]
  IN IF found.evict THEN AwaitEviction(c, c3, e)
     ELSE IF found.hit
     THEN Return(c, c3,
            IF c.accessor = "getPopularPlacesWithOffline"
            THEN PopularFallback(found.result, c.args.limit)
            ELSE NearbyFallback(found.result, c.args.lat, c.args.lng,
                                c.args.radiusKm, c.args.limit))
     ELSE Throw(c, c3)

\* the read of the accessor's entry found nothing
Missed(c, c2) ==
  IF c2.branch = "offline" /\ c2.accessor \in CollectionFallbackAccessors
  THEN ReadCollection(c, c2)
  ELSE Throw(c, c2)

\* getCachedData / getOffline... of the accessor's entry and what follows it
ReadOwn(c, c2) ==
  LET e == EntryOf(c2.accessor, c2.args)
      found == Lookup(e[1], e[2])
      c3 == [c2 EXCEPT !.own = Observed(e)]
  IN IF found.evict THEN AwaitEviction(c, c3, e)
     ELSE IF found.hit
     THEN Return(c, c3,
            IF c3.accessor = "getPlacesWithOffline" /\ c3.branch = "offline"
            THEN FilterPlaces(found.result, c3.args.options)
            ELSE found.result)
     ELSE Missed(c, c3)

\* an accessor is called: up to the await of its fetch, or of the multiRemove
\* of an expired entry, or to its return
readWithOffline(accessor, args) ==
  /\ readCalls < MaxReadCalls
  /\ readCalls' = readCalls + 1
  /\ IF isOnline
     THEN /\ Cardinality(reading) < MaxReading
          /\ reading' = reading \cup {ReadCall(accessor, args, "online")}
          /\ ev' = [op |-> accessor, at |-> "called",
                    call |-> ReadCall(accessor, args, "online")]
     ELSE /\ Cardinality(reading) < MaxReading
          /\ ReadOwn(ReadCall(accessor, args, "offline"),
                     ReadCall(accessor, args, "offline"))

\* the fetch of an accessor is over.  Resolved to an ok response: the first
\* cacheData call, if any, and the return if it was the only one.
\* Otherwise: the catch block.
readFetched(c, outcome, result) ==
  /\ c \in reading
  /\ c.pc = "fetch"
  /\ IF outcome = "ok"
     THEN LET writes == WritesAfterFetch(c.accessor, c.args, result)
              c2 == [c EXCEPT !.fetched = Some(result)]
          IN IF writes = <<>>
             THEN /\ Return(c, c2, result) /\ UNCHANGED <<store, written>>
             ELSE /\ cacheData(writes[1].entry[1], writes[1].entry[2],
                               writes[1].data, writes[1].duration)
                  /\ IF Len(writes) = 1
                     THEN Return(c, c2, result)
                     ELSE /\ reading' = (reading \ {c}) \cup
                               {[c2 EXCEPT !.pc = "save", !.writes = Tail(writes)]}
                          /\ ev' = [op |-> c.accessor, at |-> "saving", call |-> c2]
     ELSE /\ ReadOwn(c, c)
          /\ UNCHANGED <<store, written>>

\* save...ForOffline: a cacheData call of its loop is over; the next one, or
\* the return of the fetched collection
readSaved(c) ==
  /\ c \in reading
  /\ c.pc = "save"
  /\ cacheData(c.writes[1].entry[1], c.writes[1].entry[2],
               c.writes[1].data, c.writes[1].duration)
  /\ IF Len(c.writes) = 1
     THEN Return(c, c, c.fetched[1])
     ELSE /\ reading' = (reading \ {c}) \cup {[c EXCEPT !.writes = Tail(@)]}
          /\ ev' = [op |-> c.accessor, at |-> "saving", call |-> c]

\* getCachedData inside an accessor: the multiRemove of the expired entry is
\* over, null is returned to the accessor
readEvicted(c) ==
  /\ c \in reading
  /\ c.pc = "evict"
  /\ store' = multiRemove(store, EntryKeys(c.entry))
  /\ written' = [written EXCEPT ![c.entry] = None]
  /\ IF c.entry = EntryOf(c.accessor, c.args) /\ c.all = None
     THEN Missed(c, c)
     ELSE Throw(c, c)

----------------------------------------------------------------------------
(* Calls of the accessors by the application *)

CallMarkVisited ==
  \E placeId \in Places :
    /\ isOnline \/ nextId < MaxOfflineCalls
    /\ isOnline \/ Cardinality(enqueues) < MaxEnqueues
    /\ markVisitedWithOffline(placeId)
    /\ UNCHANGED <<now, readVars, cacheVars, netVars>>
    /\ UNCHANGED <<queueListeners, delivered, clearingQueue, serverLog, drainCalls>>

CallAddFavorite ==
  \E placeId \in Places :
    /\ isOnline \/ nextId < MaxOfflineCalls
    /\ isOnline \/ Cardinality(enqueues) < MaxEnqueues
    /\ addFavoriteWithOffline(placeId)
    /\ UNCHANGED <<now, readVars, cacheVars, netVars>>
    /\ UNCHANGED <<queueListeners, delivered, clearingQueue, serverLog, drainCalls>>

CallRemoveFavorite ==
  \E placeId \in Places :
    /\ isOnline \/ nextId < MaxOfflineCalls
    /\ isOnline \/ Cardinality(enqueues) < MaxEnqueues
    /\ removeFavoriteWithOffline(placeId)
    /\ UNCHANGED <<now, readVars, cacheVars, netVars>>
    /\ UNCHANGED <<queueListeners, delivered, clearingQueue, serverLog, drainCalls>>

ContinueFetched ==
  \E f \in fetching, outcome \in Outcomes :
    /\ AccessorFetched(f, outcome)
    /\ UNCHANGED <<now, readVars, cacheVars, netVars, queueVars>>

CallGetList ==
  \E accessor \in ListAccessors :
    \E args \in ArgsOf(accessor) :
      /\ readCalls < MaxListCalls
      /\ readWithOffline(accessor, args)
      /\ UNCHANGED <<now, fetching, cacheVars, netVars, queueVars>>

CallRead ==
  \E accessor \in ReadAccessors :
    \E args \in ArgsOf(accessor) :
      /\ readWithOffline(accessor, args)
      /\ UNCHANGED <<now, fetching, cacheVars, netVars, queueVars>>

ContinueReadFetched ==
  \E c \in reading, outcome \in Outcomes :
    \E result \in FetchResults(c.accessor, c.args) :
      /\ readFetched(c, outcome, result)
      /\ UNCHANGED <<now, fetching, readCalls, evicting, clearing, netVars, queueVars>>

ContinueReadSaved ==
  \E c \in reading :
    /\ readSaved(c)
    /\ UNCHANGED <<now, fetching, readCalls, evicting, clearing, netVars, queueVars>>

ContinueReadEvicted ==
  \E c \in reading :
    /\ readEvicted(c)
    /\ UNCHANGED <<now, fetching, readCalls, evicting, clearing, netVars, queueVars>>

\* the clock advances by the week of the save...ForOffline entries
WeekTick ==
  /\ now \div SEVEN_DAYS < MaxWeeks
  /\ now' = now + SEVEN_DAYS
  /\ ev' = [op |-> "tick"]
  /\ UNCHANGED <<fetching, readVars, cacheVars, netVars, queueVars>>

----------------------------------------------------------------------------
(* The session: the other keys the application keeps in AsyncStorage *)

Tokens == {"token1"}
Users == {"user1"}

\* login, register: the token and the user of the response are stored
login(token, user) ==
  /\ store' = setItem(setItem(store, AUTH_TOKEN_KEY, <<token>>),
                      AUTH_USER_KEY, JSONstringify(user))
  /\ ev' = [op |-> "login"]

logout ==
  /\ store' = removeItem(removeItem(store, AUTH_TOKEN_KEY), AUTH_USER_KEY)
  /\ ev' = [op |-> "logout"]

\* getAuthToken
getAuthToken(st) == getItem(st, AUTH_TOKEN_KEY)

CallLogin ==
  \E token \in Tokens, user \in Users :
    /\ login(token, user)
    /\ UNCHANGED <<now, fetching, readVars, evicting, clearing, written, netVars, queueVars>>

CallLogout ==
  /\ logout
  /\ UNCHANGED <<now, fetching, readVars, evicting, clearing, written, netVars, queueVars>>

----------------------------------------------------------------------------
(* authFetch (client/lib/api.ts): the request every api function sends.     *)
(* A set of headers is a function from header names to values, a value     *)
(* being a tuple of strings.                                                *)

NoHeaders == [h \in {} |-> <<>>]
Bearer(token) == <<"Bearer ", token>>

\* { ...a, ...b }: the entries of b beside those of a that b does not name
Spread(a, b) ==
  [h \in (DOMAIN a) \cup (DOMAIN b) |-> IF h \in DOMAIN b THEN b[h] ELSE a[h]]

\* options.headers || {}
HeadersOf(headers) == IF headers = Absent THEN NoHeaders ELSE headers[1]

\* if (token): null and the empty string are falsy
TokenGiven(token) == token # NoItem /\ token[1] # ""

\* the first argument of fetch: new URL(path, getApiUrl())
URL(path) == <<"getApiUrl()", path>>

\* the second argument of fetch: { ...options, headers }
authFetchRequest(path, options, token) ==
  LET headers == Spread([h \in {"Content-Type"} |-> <<"application/json">>],
                        HeadersOf(options.headers))
      withToken == IF TokenGiven(token)
                   THEN Spread(headers,
                               [h \in {"Authorization"} |-> Bearer(token[1])])
                   ELSE headers
  IN  [url |-> URL(path), method |-> options.method, body |-> options.body,
       headers |-> Some(withToken)]

\* the requests the application makes
Paths == {"/api/places", "/api/favorites/42"}
HeaderSets ==
  {NoHeaders,
   [h \in {"Accept"} |-> <<"text/html">>],
   [h \in {"Content-Type"} |-> <<"multipart/form-data">>],
   [h \in {"Authorization"} |-> <<"Basic ", "dXNlcjE=">>]}
RequestOptions ==
  [method : {Absent, Some("POST")},
   headers : {Absent} \cup {Some(h) : h \in HeaderSets},
   body : {Absent, Some("{}")}]
Responses == {[status |-> 200], [status |-> 401]}

\* authFetch: the token is read, the request is sent and the response of
\* fetch is returned as it is
authFetch(path, options, res) ==
  LET token == getAuthToken(store)
  IN  /\ ev' = [op |-> "authFetch", path |-> path, options |-> options,
                token |-> token,
                request |-> authFetchRequest(path, options, token),
                response |-> res, result |-> res]

CallAuthFetch ==
  \E path \in Paths, options \in RequestOptions, res \in Responses :
    /\ authFetch(path, options, res)
    /\ UNCHANGED <<now, store, fetching, readVars, evicting, clearing, written,
                   netVars, queueVars>>

----------------------------------------------------------------------------
(* The state after the module is loaded *)

Init ==
  /\ now = 0
  /\ store = EmptyStore
  /\ evicting = EmptyBag
  /\ clearing = EmptyBag
  /\ written = [e \in Entries |-> None]
  /\ isOnline = TRUE
  /\ pollingInterval = TRUE
  /\ networkListeners = <<>>
  /\ queueListeners = <<>>
  /\ delivered = [l \in QueueListenerIds |-> Never]
  /\ enqueues = {}
  /\ clearingQueue = 0
  /\ drains = {}
  /\ serverLog = <<>>
  /\ nextId = 0
  /\ drainCalls = 0
  /\ fetching = {}
  /\ reading = {}
  /\ readCalls = 0
  /\ ev = [op |-> "init"]

\* the queues an earlier run of the application may have left in
\* AsyncStorage: up to MaxActions actions, enqueued in the order of their ids
StoredQueues ==
  UNION {{[i \in 1..n |-> [id |-> i, type |-> types[i], data |-> "p1",
                           timestamp |-> 0]] :
            types \in [1..n -> DirectTypes]} : n \in 0..MaxActions}

\* the state after the module is loaded over the AsyncStorage of an earlier
\* run
ReloadInit ==
  \E queue \in StoredQueues :
    /\ now = 0
    /\ store = IF queue = <<>> THEN EmptyStore
               ELSE setItem(EmptyStore, OFFLINE_QUEUE_KEY, JSONstringify(queue))
    /\ evicting = EmptyBag
    /\ clearing = EmptyBag
    /\ written = [e \in Entries |-> None]
    /\ isOnline = TRUE
    /\ pollingInterval = TRUE
    /\ networkListeners = <<>>
    /\ queueListeners = <<>>
    /\ delivered = [l \in QueueListenerIds |-> Never]
    /\ enqueues = {}
    /\ clearingQueue = 0
    /\ drains = {}
    /\ serverLog = <<>>
    /\ nextId = Len(queue)
    /\ drainCalls = 0
    /\ fetching = {}
    /\ reading = {}
    /\ readCalls = 0
    /\ ev = [op |-> "init"]

CacheNext ==
  \/ CallCacheData
  \/ CallGetCachedData
  \/ ContinueGetCachedData
  \/ CallClearCache
  \/ ContinueClearCache
  \/ ClockTick

CacheSpec == Init /\ [][CacheNext]_vars

\* the cache over a key-value store that may fail
CacheFaultNext ==
  \/ CallCacheData
  \/ CallCacheDataRejected
  \/ CallGetCachedData
  \/ CallGetCachedDataRejected
  \/ ContinueGetCachedData
  \/ ContinueGetCachedDataRejected
  \/ ClockTick

CacheFaultSpec == Init /\ [][CacheFaultNext]_vars

----------------------------------------------------------------------------
(* authFetch beside login and logout, which store and remove the token *)

AuthFetchNext == CallLogin \/ CallLogout \/ CallAuthFetch

AuthFetchSpec == Init /\ [][AuthFetchNext]_vars

----------------------------------------------------------------------------
(* Properties of authFetch *)

\* the headers the caller gave, beside a bearer header when a token is stored
HeadersAsClaimed ==
  IF ev.token # NoItem
  THEN Spread(HeadersOf(ev.options.headers),
              [h \in {"Authorization"} |-> Bearer(ev.token[1])])
  ELSE HeadersOf(ev.options.headers)

\* C22: authFetch sends the given path and options, the headers being those
\* given with a bearer Authorization header added exactly when a token is
\* stored and nothing else added or altered, and returns the response of
\* fetch as it is
C22_AuthFetchAddsOnlyBearer ==
  ev.op = "authFetch" =>
    /\ ev.request.url = URL(ev.path)
    /\ ev.request.method = ev.options.method
    /\ ev.request.body = ev.options.body
    /\ HeadersOf(ev.request.headers) = HeadersAsClaimed
    /\ ev.result = ev.response

\* what holds of the code: a Content-Type header the caller did not give is
\* added as application/json beside the bearer header
AuthFetchAddsContentTypeToo ==
  ev.op = "authFetch" =>
    /\ ev.request.url = URL(ev.path)
    /\ ev.request.method = ev.options.method
    /\ ev.request.body = ev.options.body
    /\ HeadersOf(ev.request.headers) =
         Spread([h \in {"Content-Type"} |-> <<"application/json">>],
                HeadersAsClaimed)
    /\ ev.result = ev.response

----------------------------------------------------------------------------
(* The monitor and the queue: every operation on the online flag, the      *)
(* listeners and the persisted queue                                       *)

Next ==
  \/ PollTick
  \/ CallCheckNetworkStatus
  \/ SubscribeQueue
  \/ UnsubscribeQueue
  \/ CallAddToOfflineQueue
  \/ ContinueAddWritten
  \/ ContinueAddNotified
  \/ ReplayFetched
  \/ ReplayRemoveRead
  \/ ReplayRemoveWritten
  \/ ReplayRemoveNotified

Spec == Init /\ [][Next]_vars

----------------------------------------------------------------------------
(* Properties of the queue and of its replay *)

\* the last step returned from a processOfflineQueue call that replayed
DrainEnded == ev.op = "processOfflineQueue"

\* C3: a drain in which every replay call returned an ok response (the
\* actions having been enqueued before it) ends with an empty persisted
\* queue, and the last count given to every queue-length listener is 0.
C3_DrainAllOkEmptiesQueue ==
  (DrainEnded /\ ev.drain.quiet /\ ev.drain.failed = <<>>) =>
    /\ PersistedQueue = <<>>
    /\ \A l \in Range(queueListeners) : delivered[l] = 0

\* C4: after a drain with no concurrent enqueue the persisted queue is
\* exactly the actions whose replay call failed, in their original order.
C4_DrainLeavesExactlyFailed ==
  (DrainEnded /\ ev.drain.quiet) => PersistedQueue = ev.drain.failed

\* the replay of a queue that an earlier run left
ReplayNext ==
  \/ PollTick
  \/ ReplayFetched
  \/ ReplayRemoveRead
  \/ ReplayRemoveWritten
  \/ ReplayRemoveNotified

ReplaySpec == ReloadInit /\ [][ReplayNext]_vars

\* a run of pollNetworkStatus that finds the network reachable
PollTickReachable ==
  \E state \in NetworkStates :
    /\ Reachable(state)
    /\ pollingInterval
    /\ pollNetworkStatus(state)
    /\ UNCHANGED <<now, fetching, readVars, cacheVars, pollingInterval, networkListeners>>
    /\ UNCHANGED <<queueListeners, delivered, enqueues, clearingQueue,
                   serverLog, nextId>>

\* a step of a drain in flight
ReplayStep ==
  \/ ReplayFetched
  \/ ReplayRemoveRead
  \/ ReplayRemoveWritten
  \/ ReplayRemoveNotified

\* The same under fair scheduling.  The interval timer keeps firing, so
\* that a poll which finds the network reachable is eventually made while one
\* would change the state; what a poll finds is left to the network, which
\* is not required ever to be unreachable.  Every network call and every
\* key-value store operation a drain awaits eventually completes.
FairReplaySpec ==
  /\ ReloadInit
  /\ [][ReplayNext]_vars
  /\ WF_vars(PollTickReachable)
  /\ WF_vars(ReplayStep)

\* the replay beside addToOfflineQueue alone
DrainNext ==
  \/ PollTick
  \/ CallAddToOfflineQueue
  \/ ContinueAddWritten
  \/ ContinueAddNotified
  \/ ReplayFetched
  \/ ReplayRemoveRead
  \/ ReplayRemoveWritten
  \/ ReplayRemoveNotified

DrainSpec == Init /\ [][DrainNext]_vars

\* the ids of the actions of a list
IdsOf(queue) == {queue[i].id : i \in DOMAIN queue}

\* the actions whose write to the queue was made while the drain that just
\* ended was in progress, that were not in its snapshot, and that no other
\* drain has replayed
EnqueuedDuringDrain ==
  ev.drain.during \ (IdsOf(ev.drain.queue) \cup IdsOf(serverLog))

\* C28: an action enqueued with addToOfflineQueue while a drain is in
\* progress is not lost: whatever the interleaving of the steps of the
\* enqueue with those of removeFromOfflineQueue, the action is in the
\* persisted queue when the drain ends.
C28_EnqueueDuringDrainKept ==
  DrainEnded => EnqueuedDuringDrain \subseteq IdsOf(PersistedQueue)

\* the steps of one action of a drain, in the order of the code: the replay
\* call, then on success the read, the write and the notification of
\* removeFromOfflineQueue
StepsOfAction ==
  {<<"authFetch", "getOfflineQueue">>, <<"getOfflineQueue", "setItem">>,
   <<"setItem", "notifyQueueChange">>}

\* the drain d is d2 after the step
SameDrain(d, d2) == d.n = d2.n

\* C23: within one drain the replay calls are made in the order of the queue
\* read at its start: a drain starts at the first action of the persisted
\* queue, keeps that list, goes from an action only to the one after it and
\* only when the call of the action has failed or its removal is over, and
\* ends only at the last action of the list, failures included.
C23_DrainReplaysInSnapshotOrder ==
  [][/\ \A d2 \in drains' :
          IF \E d \in drains : SameDrain(d, d2)
          THEN \A d \in drains : SameDrain(d, d2) =>
                 /\ d2.queue = d.queue
                 /\ \/ /\ d2.i = d.i
                       /\ d2.pc = d.pc \/ <<d.pc, d2.pc>> \in StepsOfAction
                    \/ /\ d2.i = d.i + 1
                       /\ d2.pc = "authFetch"
                       /\ d.pc \in {"authFetch", "notifyQueueChange"}
          ELSE /\ d2.i = 1
               /\ d2.pc = "authFetch"
               /\ d2.queue = PersistedQueue
     /\ \A d \in drains :
          (\A d2 \in drains' : ~SameDrain(d, d2)) =>
            /\ d.i = Len(d.queue)
            /\ d.pc \in {"authFetch", "notifyQueueChange"}
    ]_vars

\* a drain of two actions has ended whose first call failed and whose second
\* call reached the server
C23_Witness ==
  /\ DrainEnded
  /\ Len(ev.drain.queue) = 2
  /\ ev.drain.failed = <<ev.drain.queue[1]>>
  /\ \E e \in Range(serverLog) : e.id = ev.drain.queue[2].id

\* C8: at most one execution of processOfflineQueue is in progress.
C8_SingleDrain ==
  Cardinality(drains) <= 1

\* C9: of two actions on the same place, no successful replay of the one
\* enqueued later is applied to the server before a successful replay of
\* the one enqueued earlier.  Ids are generated in the order of enqueueing.
C9_ReplayKeepsSubmissionOrder ==
  \A i, j \in DOMAIN serverLog :
    (i < j /\ serverLog[i].placeId = serverLog[j].placeId) =>
      serverLog[i].id <= serverLog[j].id

----------------------------------------------------------------------------
(* The mutating accessors for visited places and favorites.  The flag is  *)
(* changed by checkNetworkStatus.                                          *)

AccessorNext ==
  \/ CallCheckNetworkStatus
  \/ CallMarkVisited
  \/ CallAddFavorite
  \/ CallRemoveFavorite
  \/ CallGetList
  \/ ContinueFetched
  \/ ContinueReadFetched
  \/ ContinueAddWritten
  \/ ContinueAddNotified

AccessorSpec == Init /\ [][AccessorNext]_vars

\* the cache entries as the store holds them
CacheView(st) ==
  [k \in UNION {EntryKeys(e) : e \in Entries} |-> getItem(st, k)]

\* C10: called while the online flag is false, markVisitedWithOffline,
\* addFavoriteWithOffline and removeFavoriteWithOffline enqueue one action
\* of their kind for the place, which is appended to the persisted queue,
\* and return an object with queued = true; no step of the call makes a
\* network call or changes a cache entry.
C10_OfflineMutationOnlyEnqueues ==
  [][\A a \in MutatingAccessors :
       /\ (ev'.op = a /\ ev'.at = "called" /\ ~isOnline) =>
            /\ ev'.branch = "offline"
            /\ \E c \in enqueues' \ enqueues :
                 /\ enqueues' = enqueues \cup {c}
                 /\ c.caller = a
                 /\ ReplayRequest(c.action) = ApiRequest(a, ev'.data)
       /\ (ev'.op = a /\ ev'.branch = "offline") =>
            /\ fetching' = fetching
            /\ serverLog' = serverLog
            /\ CacheView(store') = CacheView(store)
       /\ (ev'.op = a /\ ev'.branch = "offline" /\ ev'.at = "written") =>
            PersistedQueue' = Append(ev'.call.read, ev'.call.action)
       /\ (ev'.op = a /\ ev'.branch = "offline" /\ ev'.at = "returned") =>
            /\ ev'.result.queued = TRUE
            /\ PersistedQueue' = PersistedQueue
    ]_vars

\* C10 (witness): an offline mutating accessor has returned; its action is the last of the
\* persisted queue and the cached favorites are there, as they were
C10_Witness ==
  /\ ev.op \in MutatingAccessors
  /\ ev.branch = "offline"
  /\ ev.at = "returned"
  /\ ev.result.queued = TRUE
  /\ PersistedQueue # <<>>
  /\ PersistedQueue[Len(PersistedQueue)] = ev.call.action
  /\ written[<<"favorites", "user">>] # None
  /\ ~isOnline

----------------------------------------------------------------------------
(* The mutating accessors over a key-value store that may fail *)

AccessorFaultNext ==
  \/ CallCheckNetworkStatus
  \/ CallMarkVisited
  \/ CallAddFavorite
  \/ CallRemoveFavorite
  \/ ContinueFetched
  \/ ContinueAddWritten
  \/ ContinueAddRejected
  \/ ContinueAddNotified

AccessorFaultSpec == Init /\ [][AccessorFaultNext]_vars

\* the last step returned the acknowledgement of an offline mutating accessor
Acknowledged ==
  /\ ev.op \in MutatingAccessors
  /\ ev.at = "returned"
  /\ ev.branch = "offline"
  /\ ev.result.queued = TRUE

\* C27: when an offline mutating accessor returns its queued = true
\* acknowledgement the action is in the persisted queue, also when the
\* key-value store fails during the enqueue.
C27_AcknowledgedActionIsPersisted ==
  Acknowledged => ev.call.action \in Range(PersistedQueue)

\* The same for the calls whose setItem did not reject: these are the calls
\* for which C27 holds of the code.
AcknowledgedActionIsPersistedUnlessRejected ==
  (Acknowledged /\ "rejected" \notin DOMAIN ev) =>
    ev.call.action \in Range(PersistedQueue)

----------------------------------------------------------------------------
(* The replay of the queue on the changes of the online flag, beside       *)
(* addToOfflineQueue and clearOfflineQueue                                  *)

RetryNext ==
  \/ PollTick
  \/ CallCheckNetworkStatus
  \/ CallAddToOfflineQueue
  \/ ContinueAddWritten
  \/ ContinueAddNotified
  \/ CallClearOfflineQueue
  \/ ContinueClearOfflineQueue
  \/ ReplayFetched
  \/ ReplayRemoveRead
  \/ ReplayRemoveWritten
  \/ ReplayRemoveNotified

RetrySpec == Init /\ [][RetryNext]_vars

----------------------------------------------------------------------------
(* addToOfflineQueue called by several callers at once, beside the queue    *)
(* listeners                                                                *)

EnqueueNext ==
  \/ SubscribeQueue
  \/ UnsubscribeQueue
  \/ CallAddToOfflineQueueTogether
  \/ ContinueAddWritten
  \/ ContinueAddNotified

EnqueueSpec == Init /\ [][EnqueueNext]_vars

\* the addToOfflineQueue call of the step wrote / returned
EnqueueWritten(e) == e.op = "addToOfflineQueue" /\ e.at = "written"
EnqueueReturned(e) == e.op = "addToOfflineQueue" /\ e.at = "returned"

\* C18: an addToOfflineQueue call writes the list it read with its action
\* appended.  When nothing was written between its read and its write (the
\* calls run one after the other) every action persisted before stays
\* beside the new one; every action another call persisted between its read
\* and its write (the calls interleave) is no longer in the persisted queue
\* after the write: of two calls that both read before either writes, only
\* the action of the later writer remains.
C18_InterleavedEnqueuesLoseOne ==
  [][EnqueueWritten(ev') =>
       /\ PersistedQueue' = Append(ev'.call.read, ev'.call.action)
       /\ ev'.call.read = PersistedQueue =>
            \A a \in Range(PersistedQueue) : a \in Range(PersistedQueue')
       /\ \A a \in Range(PersistedQueue) \ Range(ev'.call.read) :
            a \notin Range(PersistedQueue')
    ]_vars

\* C18 (witness): two calls have been made and both have returned, and the
\* persisted queue holds one action only, that of the later writer
C18_Witness ==
  /\ EnqueueReturned(ev)
  /\ nextId = 2
  /\ enqueues = {}
  /\ Len(PersistedQueue) = 1
  /\ PersistedQueue[1] = ev.call.action
  /\ ev.call.read = <<>>

\* C20: an addToOfflineQueue call between whose read and write nothing
\* else wrote the queue makes the persisted queue the queue before it with
\* its action appended: one longer, the new action at the tail, the earlier
\* entries unchanged and in order, also when an earlier entry has its type
\* and data.  When nothing else wrote between its write and its return,
\* every subscribed queue listener is called with the new length.
C20_EnqueueAppendsOneAndNotifies ==
  [][/\ (EnqueueWritten(ev') /\ ev'.call.read = PersistedQueue) =>
          PersistedQueue' = Append(PersistedQueue, ev'.call.action)
     /\ (EnqueueReturned(ev') /\ ev'.call.queue = PersistedQueue) =>
          /\ PersistedQueue' = PersistedQueue
          /\ Len(PersistedQueue) = Len(ev'.call.read) + 1
          /\ \A l \in QueueListenerIds :
               delivered'[l] = IF l \in Range(queueListeners)
                               THEN Len(PersistedQueue)
                               ELSE delivered[l]
    ]_vars

\* C20 (witness): a call has returned whose action has the type and data of
\* the entry before it; both are in the persisted queue, and the subscribed
\* listener was called with 2
C20_Witness ==
  /\ EnqueueReturned(ev)
  /\ Len(PersistedQueue) = 2
  /\ PersistedQueue[2] = ev.call.action
  /\ PersistedQueue[1].type = PersistedQueue[2].type
  /\ PersistedQueue[1].data = PersistedQueue[2].data
  /\ queueListeners = <<"q1">>
  /\ delivered["q1"] = 2

----------------------------------------------------------------------------
(* getNearbyPlacesWithOffline called offline over a cached place collection *)
(* that a savePlacesForOffline call of an earlier session left in           *)
(* AsyncStorage                                                             *)

\* the cached collections: the sequences of up to MaxCollection places
NearbyPlaces == {Place42, Place43, Place44, Place45}
Collections ==
  {c \in UNION {[1..n -> NearbyPlaces] : n \in 0..MaxCollection} :
     \A i, j \in DOMAIN c : c[i] = c[j] => i = j}
\* the query points (all of longitude 28.980), radii and limits
QueryLatitudes == {41008, 41009}
QueryLongitudes == {28980}
Radii == {Absent, Some(0), Some(1), Some(20), Some(50)}
Limits == {Absent, Some(0), Some(1), Some(2)}

NearbyInit ==
  \E allPlaces \in Collections :
    /\ now = 0
    /\ store = multiSet(EmptyStore,
                        cacheKey("places", "all"), JSONstringify(allPlaces),
                        expiryKey("places", "all"),
                        NumberToString(Num(SEVEN_DAYS)))
    /\ written = [e \in Entries |->
                    IF e = <<"places", "all">>
                    THEN [val |-> allPlaces, at |-> 0, ttl |-> Num(SEVEN_DAYS)]
                    ELSE None]
    /\ isOnline = FALSE
    /\ evicting = EmptyBag
    /\ clearing = EmptyBag
    /\ pollingInterval = TRUE
    /\ networkListeners = <<>>
    /\ queueListeners = <<>>
    /\ delivered = [l \in QueueListenerIds |-> Never]
    /\ enqueues = {}
    /\ clearingQueue = 0
    /\ drains = {}
    /\ serverLog = <<>>
    /\ nextId = 0
    /\ drainCalls = 0
    /\ fetching = {}
    /\ reading = {}
    /\ readCalls = 0
    /\ ev = [op |-> "init"]

CallNearby ==
  \E lat \in QueryLatitudes, lng \in QueryLongitudes,
     radiusKm \in Radii, limit \in Limits :
    /\ readWithOffline("getNearbyPlacesWithOffline",
                       [lat |-> lat, lng |-> lng,
                        radiusKm |-> radiusKm, limit |-> limit])
    /\ UNCHANGED <<now, fetching, cacheVars, netVars, queueVars>>

NearbyNext == CallNearby

NearbySpec == NearbyInit /\ [][NearbyNext]_vars

----------------------------------------------------------------------------
(* getPopularPlacesWithOffline called offline over such a collection *)

CallPopular ==
  \E limit \in Limits :
    /\ readWithOffline("getPopularPlacesWithOffline", [limit |-> limit])
    /\ UNCHANGED <<now, fetching, cacheVars, netVars, queueVars>>

PopularNext == CallPopular

PopularSpec == NearbyInit /\ [][PopularNext]_vars

----------------------------------------------------------------------------
(* The read accessors, the flag being changed by checkNetworkStatus and    *)
(* the clock advancing                                                      *)

ReadNext ==
  \/ CallCheckNetworkStatus
  \/ CallRead
  \/ ContinueReadFetched
  \/ ContinueReadSaved
  \/ ContinueReadEvicted
  \/ ClockTick
  \/ WeekTick

ReadSpec == Init /\ [][ReadNext]_vars

----------------------------------------------------------------------------
(* clearCache beside the other users of the key-value store: the session   *)
(* and the offline queue                                                    *)

ClearNext ==
  \/ CallCacheData
  \/ CallClearCache
  \/ ContinueClearCache
  \/ CallLogin
  \/ CallLogout
  \/ CallAddToOfflineQueue
  \/ ContinueAddWritten
  \/ ContinueAddNotified

ClearSpec == Init /\ [][ClearNext]_vars

\* a key under the cache value prefix or the cache expiry prefix
IsCacheKey(k) == k[1] \in {"@wandergo_cache:", "@wandergo_expiry:"}
CacheKeysIn(st) == {k \in DOMAIN st : IsCacheKey(k)}

\* C11: clearCache selects every key of the store under the cache value
\* prefix and the cache expiry prefix, and when it returns none of them is
\* in the store, while the persisted offline queue and every other key
\* that is not a cache key are as its multiRemove found them.
C11_ClearCacheRemovesOnlyCacheKeys ==
  [][/\ (ev'.op = "clearCache" /\ ev'.at = "called") =>
          /\ ev'.cacheKeys = CacheKeysIn(store)
          /\ store' = store
     /\ (ev'.op = "clearCache" /\ ev'.at = "returned") =>
          /\ ev'.cacheKeys \cap DOMAIN store' = {}
          /\ CacheKeysIn(store') = CacheKeysIn(store) \ ev'.cacheKeys
          /\ PersistedQueue' = PersistedQueue
          /\ \A k \in (DOMAIN store \cup DOMAIN store') \ CacheKeysIn(store) :
                getItem(store', k) = getItem(store, k)
    ]_vars

\* C11 (witness): a clearCache call that found cache keys has returned; no
\* cache key is left, the queue holds an action and the token is stored
C11_Witness ==
  /\ ev.op = "clearCache"
  /\ ev.at = "returned"
  /\ ev.cacheKeys # {}
  /\ CacheKeysIn(store) = {}
  /\ PersistedQueue # <<>>
  /\ getAuthToken(store) # NoItem

----------------------------------------------------------------------------
(* The monitor with its subscribers, the application enqueueing nothing *)

NetNext ==
  \/ PollTick
  \/ CallCheckNetworkStatus
  \/ Subscribe
  \/ Unsubscribe

NetSpec == Init /\ [][NetNext]_vars

----------------------------------------------------------------------------
(* Properties of the monitor *)

\* the network listeners the step called, in order
Notified(e) == IF e.op = "pollNetworkStatus" THEN e.notified ELSE <<>>
\* the step called processOfflineQueue
ReplayStarted(e) == e.op = "pollNetworkStatus" /\ e.replay

\* C5: every subscribed network listener is invoked exactly once for each
\* change of the online flag, whichever operation changes it, and no listener
\* is invoked by a step that leaves the flag as it was.
C5_ListenersCalledOncePerChange ==
  [][/\ isOnline' # isOnline => Notified(ev') = networkListeners
     /\ isOnline' = isOnline => Notified(ev') = <<>>]_vars

\* C6: in every state with at least one network listener subscribed the poll
\* timer is running.
C6_PollingWhileSubscribed ==
  Len(networkListeners) > 0 => pollingInterval

\* C7: every change of the online flag from false to true starts a queue
\* replay, whichever operation makes it, and nothing else starts a replay.
C7_ReplayExactlyOnGoingOnline ==
  [][ReplayStarted(ev') <=> (~isOnline /\ isOnline')]_vars

\* a replay is running: processOfflineQueue has just been called, or a
\* drain is in flight
ReplayRuns == ReplayStarted(ev) \/ drains # {}

\* C29: when the persisted queue is not empty and the online flag is true a
\* replay eventually runs, under fair polling: the actions a previous run
\* left in the queue are replayed after the module is loaded without the
\* network having to become unreachable first.
C29_NonEmptyQueueEventuallyReplayed ==
  (PersistedQueue # <<>> /\ isOnline /\ drainCalls < MaxDrainCalls)
    ~> ReplayRuns

\* What holds of the code: once the flag is false, a replay is started by
\* the poll that finds the network reachable again.
GoingOnlineEventuallyReplays ==
  (~isOnline /\ drainCalls < MaxDrainCalls) ~> ReplayStarted(ev)

\* the step was a call of the function subscribeToNetworkStatus returned
Unsubscribed(e) ==
  e.op = "unsubscribe" /\ e.from = "subscribeToNetworkStatus"

\* the unsubscribe step takes its callback, and nothing else, out of the list
RemovesOnlyItsCallback ==
  Unsubscribed(ev') =>
    /\ ev'.listener \notin Range(networkListeners')
    /\ networkListeners' =
         SelectSeq(networkListeners, LAMBDA l : l # ev'.listener)

\* C26: the unsubscribe function of subscribeToNetworkStatus removes its
\* callback from the list and leaves the others in their order; on every
\* change of the online flag the callbacks invoked are those of the list: a
\* removed callback is invoked no more, the remaining ones still are.
C26_UnsubscribeRemovesOnlyThatCallback ==
  [][/\ RemovesOnlyItsCallback
     /\ isOnline' # isOnline => Notified(ev') = networkListeners]_vars

\* The same for the changes of the flag made by pollNetworkStatus: these are
\* the changes for which C26 holds of the code.
UnsubscribeRemovesOnlyThatCallbackOnPoll ==
  [][/\ RemovesOnlyItsCallback
     /\ (ev'.op = "pollNetworkStatus" /\ isOnline' # isOnline) =>
          Notified(ev') = networkListeners]_vars

----------------------------------------------------------------------------
(* Properties of the retry of failed actions *)

\* the actions whose replay is known to have failed: those a drain in
\* flight has failed on, and those the drain that just ended failed on;
\* and the ones of them that are in the persisted queue
KnownFailed ==
  UNION {Range(d.failed) : d \in drains} \cup
  (IF DrainEnded THEN Range(ev.drain.failed) ELSE {})
FailedQueued == KnownFailed \cap Range(PersistedQueue)

\* a failed action is attempted again on every change of the online flag
\* from false to true: the step starts a replay that takes the action
RetriedOnGoingOnline ==
  (~isOnline /\ isOnline' /\ FailedQueued # {}) =>
    /\ ReplayStarted(ev')
    /\ \E d \in drains' :
         /\ d.n = drainCalls'
         /\ d.pc = "authFetch"
         /\ FailedQueued \subseteq Range(d.queue)

\* a failed action leaves the persisted queue only by the write of
\* removeFromOfflineQueue after its successful replay, or by clearOfflineQueue
FailedLeavesOnlyBySuccessOrClear ==
  \A a \in FailedQueued :
    a \notin Range(PersistedQueue') =>
      \/ clearingQueue' = clearingQueue + 1
      \/ \E d \in drains :
           /\ d.pc = "setItem"
           /\ d.queue[d.i] = a
           /\ [d EXCEPT !.pc = "notifyQueueChange"] \in drains'

\* C19: a queued action whose replay failed stays in the persisted queue
\* and is attempted again on every later change of the online flag from
\* false to true, however often it has failed; it leaves the queue only
\* through its successful replay or through clearOfflineQueue.
C19_FailedActionRetriedUntilSuccess ==
  [][RetriedOnGoingOnline /\ FailedLeavesOnlyBySuccessOrClear]_vars

----------------------------------------------------------------------------
(* Properties of the cache *)

\* the last step returned from a getCachedData call that read an entry
ReturnedRead == ev.op = "getCachedData" /\ ev.call.stored

\* ... whose expiry the clock had passed / had not passed at the read
ReadAfterExpiry == ReturnedRead /\ ev.call.afterExpiry
ReadWithinTtl == ReturnedRead /\ ~ev.call.afterExpiry

\* C1: a getCachedData call made when the current time exceeds the stored
\* expiry of the entry returns null, and when it has returned neither the
\* value key nor the expiry key of the entry exists in the store.
C1_ExpiredReadEvicts ==
  ReadAfterExpiry =>
    /\ ev.result = JsNull
    /\ EntryKeys(ev.call.entry) \cap DOMAIN store = {}

\* C1 (witness): a getCachedData call that read after the expiry has
\* returned null, and both keys of the entry are gone
C1_Witness ==
  /\ ReadAfterExpiry
  /\ ev.result = JsNull
  /\ EntryKeys(ev.call.entry) \cap DOMAIN store = {}

\* C2: cacheData(kind, id, value, ttl) with ttl > 0, followed by a
\* getCachedData(kind, id) that reads before the ttl has elapsed, nothing
\* having written or removed the entry in between, returns the stored value.
C2_PutThenGetReturnsValue ==
  (ReadWithinTtl /\ NumGT(ev.call.ttl, Num(0))) =>
    ev.result = ev.call.val

\* C16: getCachedData returns a cache entry only if the current time is
\* strictly less than the stored expiry of the entry: a read made at a time
\* equal to or later than the expiry returns null.
C16_VisibleOnlyBeforeExpiry ==
  (ReturnedRead /\ ~ev.call.beforeExpiry) => ev.result = JsNull

\* C21: cacheData and getCachedData never reject.  When the key-value
\* store fails on a read (multiGet, or the multiRemove of an expired entry)
\* getCachedData returns null; when it fails on the write, cacheData
\* returns normally and nothing has been stored.
C21_StorageFailuresSwallowed ==
  [][ev'.op = "storageFailure" =>
       /\ ev'.outcome = "return"
       /\ store' = store
       /\ ev'.in = "getCachedData" => ev'.result = JsNull
    ]_vars

\* C21 (witness): the write of a cacheData call has failed, the call has
\* returned and the store holds neither key of the entry
C21_Witness ==
  /\ ev.op = "storageFailure"
  /\ ev.in = "cacheData"
  /\ ev.outcome = "return"
  /\ EntryKeys(ev.entry) \cap DOMAIN store = {}

\* C30: in every reachable state of the key-value store the value key of a
\* cache entry exists if and only if its expiry key exists, whatever the
\* interleaving of cacheData, getCachedData with its eviction, and
\* clearCache.
C30_ValueKeyIffExpiryKey ==
  \A e \in Entries :
    cacheKey(e[1], e[2]) \in DOMAIN store <=> expiryKey(e[1], e[2]) \in DOMAIN store

\* C30 (witness): a clearCache call that found cache keys has removed them
\* while the eviction of a getCachedData call is in flight; neither key of
\* the entry is in the store
C30_Witness ==
  /\ ev.op = "clearCache"
  /\ ev.at = "returned"
  /\ ev.cacheKeys # {}
  /\ evicting # EmptyBag
  /\ \A e \in DirectEntries : EntryKeys(e) \cap DOMAIN store = {}

\* The same for the calls whose expiry, Date.now() + ttl, is below 10^21:
\* these are the calls for which C2 holds of the code.
PutThenGetBelow1e21 ==
  (ReadWithinTtl /\ ev.call.below1e21) =>
    ev.result = ev.call.val

----------------------------------------------------------------------------
(* Properties of the read accessors *)

\* the last step returned from a call of a read accessor
ReadReturned == ev.op \in ReadAccessors /\ ev.at = "returned"

\* ... that was made online and whose fetch failed
FailedOnline ==
  /\ ReadReturned
  /\ ev.call.branch = "online"
  /\ ev.call.fetched = Absent

\* the read of the accessor's own entry found an entry whose expiry is
\* above Date.now() / equal to Date.now()
OwnUnexpired == ev.call.own.present /\ ev.call.own.unexpired
OwnAtExpiry ==
  /\ ev.call.own.present
  /\ ~ev.call.own.unexpired
  /\ ~ev.call.own.expired

\* C12: a read accessor called while the online flag is true whose live
\* fetch fails returns the cached value of its query when one is present
\* and unexpired, and otherwise rejects with the error of the fetch.
C12_FetchFailureFallsBackToCache ==
  FailedOnline =>
    IF OwnUnexpired
    THEN ev.outcome = "return" /\ ev.result = ev.call.own.val
    ELSE ev.outcome = "throw" /\ ev.error = FetchError

\* The same for the reads that are not made at the very instant of the
\* expiry: these are the calls for which C12 holds of the code.
FetchFailureAwayFromExpiry ==
  (FailedOnline /\ ~OwnAtExpiry) =>
    IF OwnUnexpired
    THEN ev.outcome = "return" /\ ev.result = ev.call.own.val
    ELSE ev.outcome = "throw" /\ ev.error = FetchError

\* ... that was made online and whose fetch succeeded
FetchedOnline ==
  /\ ReadReturned
  /\ ev.call.branch = "online"
  /\ ev.call.fetched # Absent

\* what a call of the accessor made offline in this state returns: the
\* branch of the accessor after if (isOnline) {...}; Absent when it throws
OfflineAnswer(accessor, args) ==
  LET e == EntryOf(accessor, args)
      own == Lookup(e[1], e[2])
      all == Lookup("places", "all")
  IN IF own.hit
     THEN Some(IF accessor = "getPlacesWithOffline"
               THEN FilterPlaces(own.result, args.options)
               ELSE own.result)
     ELSE IF accessor \in CollectionFallbackAccessors /\ all.hit
     THEN Some(IF accessor = "getPopularPlacesWithOffline"
               THEN PopularFallback(all.result, args.limit)
               ELSE NearbyFallback(all.result, args.lat, args.lng,
                                   args.radiusKm, args.limit))
     ELSE Absent

\* a cacheData call that stored the result stands for the entry of the
\* accessor; Date.now() is below the expiry that call computed
CachedAs(accessor, args, result) ==
  /\ written[EntryOf(accessor, args)] # None
  /\ written[EntryOf(accessor, args)].val = result
WithinTtl(accessor, args) ==
  NumGT(ExpiryOf(written[EntryOf(accessor, args)]), Num(now))

\* getPlacesWithOffline called with filter options
WithOptions(accessor, args) ==
  accessor = "getPlacesWithOffline" /\ ~NoOptions(args.options)

\* C13: when a call of a read accessor made online returns the result of
\* its successful fetch, that result has been written to the cache: a call
\* of the same accessor with the same arguments made offline from then on,
\* within the ttl, returns that result instead of raising an error,
\* getPlacesWithOffline with filter options included.
C13_FetchedResultServedOffline ==
  FetchedOnline =>
    /\ ev.call.fetched = Some(ev.result)
    /\ CachedAs(ev.op, ev.call.args, ev.result)
    /\ WithinTtl(ev.op, ev.call.args) =>
         OfflineAnswer(ev.op, ev.call.args) = Some(ev.result)

\* The same for every call but those of getPlacesWithOffline with options:
\* these are the calls for which C13 holds of the code.
FetchedResultServedOfflineNoOptions ==
  (FetchedOnline /\ ~WithOptions(ev.op, ev.call.args)) =>
    /\ ev.call.fetched = Some(ev.result)
    /\ CachedAs(ev.op, ev.call.args, ev.result)
    /\ WithinTtl(ev.op, ev.call.args) =>
         OfflineAnswer(ev.op, ev.call.args) = Some(ev.result)

\* ... that was made offline
ReturnedOffline == ReadReturned /\ ev.call.branch = "offline"

\* the call read the cached place collection as its fallback and found an
\* entry whose expiry is above Date.now() / equal to Date.now()
AllRead == ev.call.all # None
AllUnexpired == AllRead /\ ev.call.all.present /\ ev.call.all.unexpired
AllAtExpiry ==
  /\ AllRead
  /\ ev.call.all.present
  /\ ~ev.call.all.unexpired
  /\ ~ev.call.all.expired

\* the call found no unexpired entry: neither that of its query nor, for
\* the popular and nearby accessors, the cached place collection
NothingUnexpired ==
  /\ ~OwnUnexpired
  /\ ev.op \in CollectionFallbackAccessors => (AllRead /\ ~AllUnexpired)

\* no call made offline is awaiting a fetch
NoFetchOffline == \A c \in reading : c.branch = "offline" => c.pc # "fetch"

\* C14: a read accessor called while the online flag is false that finds
\* neither an unexpired cache entry of its query nor (nearby and popular
\* only) an unexpired cached place collection rejects with the
\* not-available-offline error, returning no data; no call made offline
\* makes a network call.
C14_OfflineWithoutCacheRejects ==
  /\ NoFetchOffline
  /\ (ReturnedOffline /\ NothingUnexpired) =>
       ev.outcome = "throw" /\ ev.error = OfflineError

\* The same for the reads that are not made at the very instant of an
\* expiry: these are the calls for which C14 holds of the code.
OfflineWithoutCacheAwayFromExpiry ==
  /\ NoFetchOffline
  /\ (ReturnedOffline /\ NothingUnexpired /\ ~OwnAtExpiry /\ ~AllAtExpiry) =>
       ev.outcome = "throw" /\ ev.error = OfflineError

\* the accessors that write through savePlacesForOffline,
\* saveRoutesForOffline and saveItinerariesForOffline
SavingAccessors ==
  {"getPlacesWithOffline", "getRoutesWithOffline", "getItinerariesWithOffline"}

\* the entries a step writes, and the expiry the store then holds for one
WrittenBy(w, w2) == {e \in Entries : w2[e] # None /\ w2[e] # w[e]}
StoredExpiry(st, e) == parseInt(getItem(st, expiryKey(e[1], e[2])))

\* C17: every cache entry written by savePlacesForOffline,
\* saveRoutesForOffline or saveItinerariesForOffline, the collection entry
\* and each per-item entry alike, has expiry = write time + 7 days; an entry
\* written by cacheData without a duration has expiry = write time + 24 h.
C17_BulkSaveSevenDays ==
  [][\A e \in WrittenBy(written, written') :
       /\ written'[e].at = now
       /\ StoredExpiry(store', e) =
            NumAdd(Num(now), IF ev'.op \in SavingAccessors
                             THEN Num(SEVEN_DAYS)
                             ELSE Num(DEFAULT_CACHE_DURATION))
    ]_vars

\* What the code does: 7 days for the collection entry of a save...ForOffline
\* call, 24 hours for its per-item entries and for every other write.
CollectionSevenDaysItemsOneDay ==
  [][\A e \in WrittenBy(written, written') :
       /\ written'[e].at = now
       /\ StoredExpiry(store', e) =
            NumAdd(Num(now),
                   IF /\ ev'.op \in SavingAccessors
                      /\ e = EntryOf(ev'.op, ev'.call.args)
                   THEN Num(SEVEN_DAYS)
                   ELSE Num(DEFAULT_CACHE_DURATION))
    ]_vars

\* the last step returned the cached place collection, or a part of it, from
\* getPlacesWithOffline: called offline, or online and its fetch failed
PlacesFromCache ==
  /\ ReadReturned
  /\ ev.op = "getPlacesWithOffline"
  /\ ev.outcome = "return"
  /\ ev.call.branch = "offline" \/ ev.call.fetched = Absent

\* the place passes each filter the options give
PassesFilters(p, options) ==
  /\ options.city # Absent =>
       includes(toLowerCase(p.city), toLowerCase(options.city[1]))
  /\ options.category # Absent => p.category = options.category[1]
  /\ options.search # Absent =>
       \/ includes(toLowerCase(p.name), toLowerCase(options.search[1]))
       \/ /\ p.description # Absent
          /\ includes(toLowerCase(p.description[1]),
                      toLowerCase(options.search[1]))

PlacesResultAsClaimed ==
  LET options == ev.call.args.options
  IN options # Undefined =>
       /\ \A i \in 1..Len(ev.result) : PassesFilters(ev.result[i], options)
       /\ options.limit # Absent => Len(ev.result) <= options.limit[1]

\* C24: when getPlacesWithOffline serves its result from the cached place
\* collection, called offline or online after a failed fetch, every place
\* returned passes each filter given and at most limit places are returned.
C24_CachedPlacesFilteredAndLimited ==
  PlacesFromCache => PlacesResultAsClaimed

\* The same for the calls made while the online flag is false with a limit
\* other than 0: these are the calls for which C24 holds of the code.
CachedPlacesFilteredOffline ==
  (/\ PlacesFromCache
   /\ ev.call.branch = "offline"
   /\ ev.call.args.options # Undefined => ev.call.args.options.limit # Some(0))
    => PlacesResultAsClaimed

----------------------------------------------------------------------------
(* Properties of the popular fallback *)

\* the last step returned from a popular call that, offline and without an
\* entry for its limit, answered from the cached collection
PopularFellBack ==
  /\ ReturnedOffline
  /\ ev.op = "getPopularPlacesWithOffline"
  /\ ~ev.call.own.present
  /\ AllRead
  /\ ev.call.all.present
  /\ ev.outcome = "return"

\* the limit the call asked for
RequestedLimit ==
  IF ev.call.args.limit = Absent THEN 10 ELSE ev.call.args.limit[1]

PopularResultAsClaimed ==
  LET r == ev.result
      allPlaces == ev.call.all.val
  IN /\ \A i \in 1..Len(r) : r[i].avgRating # Absent
     /\ \A i, j \in 1..Len(r) :
          i < j => r[i].avgRating[1] >= r[j].avgRating[1]
     /\ Len(r) <= RequestedLimit
     /\ \A k \in 1..Len(allPlaces) :
          (/\ allPlaces[k].avgRating # Absent
           /\ \E i \in 1..Len(r) :
                allPlaces[k].avgRating[1] > r[i].avgRating[1])
          => \E i \in 1..Len(r) : r[i] = allPlaces[k]

\* C25: in the popular offline fallback the result holds only places that
\* have a rating, is ordered by non-increasing rating, has at most limit
\* entries (10 when no limit is given), and omits no rated place whose
\* rating is higher than that of a returned one.
C25_PopularFallbackRatedSortedLimited ==
  PopularFellBack => PopularResultAsClaimed

\* The same for the calls whose limit is not 0: these are the calls for
\* which C25 holds of the code.
PopularFallbackNonZeroLimit ==
  (PopularFellBack /\ ev.call.args.limit # Some(0)) => PopularResultAsClaimed

----------------------------------------------------------------------------
(* Properties of the nearby fallback *)

\* the last step returned from a nearby call that, offline and without an
\* entry for its rounded coordinates, answered from the cached collection
NearbyFellBack ==
  /\ ReturnedOffline
  /\ ev.op = "getNearbyPlacesWithOffline"
  /\ ~ev.call.own.present
  /\ AllRead
  /\ ev.call.all.present
  /\ ev.outcome = "return"

\* the distance of a place from the query point of the call, and the
\* radius the call asked for, in millimetres
DistanceOf(p) ==
  haversine(ev.call.args.lat, ev.call.args.lng, p.latitude, p.longitude)
RequestedRadius ==
  Km(IF ev.call.args.radiusKm = Absent THEN 20 ELSE ev.call.args.radiusKm[1])

NearbyResultAsClaimed ==
  LET r == ev.result
      allPlaces == ev.call.all.val
  IN /\ \A i \in 1..Len(r) : DistanceOf(r[i].place) <= RequestedRadius
     /\ \A i, j \in 1..Len(r) :
          i < j => DistanceOf(r[i].place) <= DistanceOf(r[j].place)
     /\ \A k \in 1..Len(allPlaces) :
          (/\ DistanceOf(allPlaces[k]) <= RequestedRadius
           /\ \E i \in 1..Len(r) :
                DistanceOf(allPlaces[k]) < DistanceOf(r[i].place))
          => \E i \in 1..Len(r) : r[i].place = allPlaces[k]

\* C15: in the nearby offline fallback, for every query point, radius and
\* limit, every returned place is within the requested radius of the query
\* point (20 km when no radius is given), the result is ordered by
\* non-decreasing distance, and no place of the collection that is within
\* the radius and nearer than a returned place is omitted.
C15_NearbyFallbackWithinRadiusSorted ==
  NearbyFellBack => NearbyResultAsClaimed

\* The same for the calls whose radius is not 0: these are the calls for
\* which C15 holds of the code.
NearbyFallbackNonZeroRadius ==
  (NearbyFellBack /\ ev.call.args.radiusKm # Some(0)) => NearbyResultAsClaimed

====
